---- MODULE Spec2Model ----
(***************************************************************************)
(* Portfolio ledger and trade execution engine of the hedge-fund backend:  *)
(* the rule engine (internal/portfolio/domain), the orchestration service  *)
(* (internal/portfolio/service) and the persistence gateway                *)
(* (internal/portfolio/repository) over the PostgreSQL schema.             *)
(*                                                                         *)
(* Money and prices are float64 in the source.  They are modelled as exact *)
(* fractions <<n, d>> (d > 0, lowest terms), so binary rounding is not     *)
(* represented; the NUMERIC(p, s) columns of the schema round on write.    *)
(***************************************************************************)
EXTENDS Integers, Sequences, FiniteSets, TLC

VARIABLES
    memPortfolio,   \* domain harness: the in-memory *models.Portfolio
    lastCall,       \* domain harness: the last ValidateTradeOrder/ExecuteTradeOrder call
    executed,       \* domain harness: the trades ExecuteTradeOrder has stamped, in order
    db,             \* committed rows: [portfolios, positions, trades]
    ids,            \* the SERIAL sequences: [position, trade]
    req,            \* one record per in-flight ExecuteTrade request
    started,        \* number of service calls started so far
    job,            \* the market-data refresh in flight, if any
    queues          \* the job queues: Redis lists and statuses, and the retries asleep

vars == <<memPortfolio, lastCall, executed, db, ids, req, started, job, queues>>
domainVars == <<memPortfolio, lastCall, executed>>
serviceVars == <<db, ids, req, started>>

(***************************************************************************)
(* Bounds of the model.                                                    *)
(***************************************************************************)
MaxCalls == 2        \* calls made by the domain harness
MaxQuantity == 2     \* order quantities range over 0..MaxQuantity
MaxRequests == 2     \* ExecuteTrade requests started in one behaviour
MaxScenarioCalls == 3    \* orders executed by the harness on the large portfolio
MaxPositions == 2    \* positions of a portfolio handed to the analytics

(***************************************************************************)
(* Exact arithmetic on fractions.                                          *)
(***************************************************************************)
RECURSIVE GCD(_, _)
GCD(a, b) == IF b = 0 THEN a ELSE GCD(b, a % b)

abs(x) == IF x < 0 THEN -x ELSE x

Norm(n, d) == LET g == GCD(abs(n), d) IN <<n \div g, d \div g>>

Dec(n) == <<n, 1>>
Zero == Dec(0)
RNeg(x) == <<-x[1], x[2]>>
RAdd(x, y) ==
    LET g == GCD(x[2], y[2])
    IN  Norm(x[1] * (y[2] \div g) + y[1] * (x[2] \div g), (x[2] \div g) * y[2])
RSub(x, y) == RAdd(x, RNeg(y))
RMul(x, y) ==
    LET g1 == GCD(abs(x[1]), y[2])
        g2 == GCD(abs(y[1]), x[2])
    IN  Norm((x[1] \div g1) * (y[1] \div g2), (x[2] \div g2) * (y[2] \div g1))
\* x / y for y # 0
RDiv(x, y) ==
    IF y[1] > 0 THEN RMul(x, <<y[2], y[1]>>) ELSE RMul(x, <<-y[2], -y[1]>>)
RLt(x, y) ==
    LET g == GCD(x[2], y[2])
    IN  x[1] * (y[2] \div g) < y[1] * (x[2] \div g)
RLe(x, y) == ~RLt(y, x)

(***************************************************************************)
(* Inputs.                                                                 *)
(***************************************************************************)
Symbols == {"AAPL", "MSFT"}
Sides == {"buy", "sell", "hold"}
Quantities == 0..MaxQuantity
\* execution prices: invalid (0), below the minimum fee (0.50), notional
\* under and over the 1000.00 where the 0.1% fee passes the 1.00 minimum
Prices == {Zero, <<1, 2>>, Dec(150), Dec(600)}
\* opening cash of the in-memory portfolio of the domain harness
OpeningCash == {Dec(151), Dec(2000)}
TestUserID == 1

(***************************************************************************)
(* Rule engine: internal/portfolio/domain/portfolio.go                     *)
(***************************************************************************)
CommissionRate == <<1, 1000>>
MinCommission == Dec(1)

\* mutant of calculateCommission: no 1.00 minimum
calculateCommissionNoMinimum(tradeValue) == RMul(tradeValue, CommissionRate)

calculateCommission(tradeValue) ==
    LET commission == RMul(tradeValue, CommissionRate)
    IN  IF RLt(commission, MinCommission) THEN MinCommission ELSE commission

\* index of the first position with the symbol; 0 stands for Go's -1
findPositionByIndex(positions, symbol) ==
    IF \E i \in 1..Len(positions) : positions[i].symbol = symbol
    THEN CHOOSE i \in 1..Len(positions) :
            /\ positions[i].symbol = symbol
            /\ \A j \in 1..(i - 1) : positions[j].symbol # symbol
    ELSE 0

\* the first position with the symbol as <<position>>, or <<>> for nil
findPosition(positions, symbol) ==
    LET i == findPositionByIndex(positions, symbol)
    IN  IF i = 0 THEN <<>> ELSE <<positions[i]>>

TradeValue(trade, currentPrice) == RMul(Dec(trade.quantity), currentPrice)

\* faulty variant of ValidateTradeOrder: the held quantity is not compared
\* with the quantity of a sell
ValidateTradeOrderAnyQuantity(trade, portfolio, currentPrice) ==
    IF trade.quantity <= 0 THEN "InvalidQuantity"
    ELSE IF RLe(currentPrice, Zero) THEN "InvalidPrice"
    ELSE IF trade.side = "buy" THEN
        IF RLt(portfolio.cash,
               RAdd(TradeValue(trade, currentPrice),
                    calculateCommission(TradeValue(trade, currentPrice))))
        THEN "InsufficientFunds" ELSE "none"
    ELSE IF trade.side = "sell" THEN
        IF findPosition(portfolio.positions, trade.symbol) = <<>>
        THEN "InsufficientShares" ELSE "none"
    ELSE "InvalidSide"

\* faulty variant of ValidateTradeOrder: a buy whose total cost is all the
\* cash is turned down
ValidateTradeOrderFundsInclusive(trade, portfolio, currentPrice) ==
    IF trade.quantity <= 0 THEN "InvalidQuantity"
    ELSE IF RLe(currentPrice, Zero) THEN "InvalidPrice"
    ELSE IF trade.side = "buy" THEN
        IF RLe(portfolio.cash,
               RAdd(TradeValue(trade, currentPrice),
                    calculateCommission(TradeValue(trade, currentPrice))))
        THEN "InsufficientFunds" ELSE "none"
    ELSE IF trade.side = "sell" THEN
        LET position == findPosition(portfolio.positions, trade.symbol)
        IN  IF position = <<>> \/ position[1].quantity < trade.quantity
            THEN "InsufficientShares" ELSE "none"
    ELSE "InvalidSide"

\* faulty variant of ValidateTradeOrder: a sell of all the shares held is
\* turned down
ValidateTradeOrderSharesInclusive(trade, portfolio, currentPrice) ==
    IF trade.quantity <= 0 THEN "InvalidQuantity"
    ELSE IF RLe(currentPrice, Zero) THEN "InvalidPrice"
    ELSE IF trade.side = "buy" THEN
        IF RLt(portfolio.cash,
               RAdd(TradeValue(trade, currentPrice),
                    calculateCommission(TradeValue(trade, currentPrice))))
        THEN "InsufficientFunds" ELSE "none"
    ELSE IF trade.side = "sell" THEN
        LET position == findPosition(portfolio.positions, trade.symbol)
        IN  IF position = <<>> \/ position[1].quantity <= trade.quantity
            THEN "InsufficientShares" ELSE "none"
    ELSE "InvalidSide"

\* faulty variant of ValidateTradeOrder: the price is looked at before the
\* quantity
ValidateTradeOrderPriceFirst(trade, portfolio, currentPrice) ==
    IF RLe(currentPrice, Zero) THEN "InvalidPrice"
    ELSE IF trade.quantity <= 0 THEN "InvalidQuantity"
    ELSE IF trade.side = "buy" THEN
        IF RLt(portfolio.cash,
               RAdd(TradeValue(trade, currentPrice),
                    calculateCommission(TradeValue(trade, currentPrice))))
        THEN "InsufficientFunds" ELSE "none"
    ELSE IF trade.side = "sell" THEN
        LET position == findPosition(portfolio.positions, trade.symbol)
        IN  IF position = <<>> \/ position[1].quantity < trade.quantity
            THEN "InsufficientShares" ELSE "none"
    ELSE "InvalidSide"

ValidateTradeOrder(trade, portfolio, currentPrice) ==
    IF trade.quantity <= 0 THEN "InvalidQuantity"
    ELSE IF RLe(currentPrice, Zero) THEN "InvalidPrice"
    ELSE IF trade.side = "buy" THEN
        LET orderValue == TradeValue(trade, currentPrice)
            fees == calculateCommission(orderValue)
            totalCost == RAdd(orderValue, fees)
        IN  IF RLt(portfolio.cash, totalCost) THEN "InsufficientFunds" ELSE "none"
    ELSE IF trade.side = "sell" THEN
        LET position == findPosition(portfolio.positions, trade.symbol)
        IN  IF position = <<>> \/ position[1].quantity < trade.quantity
            THEN "InsufficientShares" ELSE "none"
    ELSE "InvalidSide"

\* faulty variant of StampTrade: the status is left as the caller set it
StampTradePending(trade, currentPrice) ==
    [trade EXCEPT !.price = currentPrice,
                  !.fees = calculateCommission(TradeValue(trade, currentPrice)),
                  !.executed = TRUE]

\* faulty variant of ValidateTradeOrderCall: the price and the fee are
\* written to the trade while the order is looked at
ValidateTradeOrderCallStamping(trade, portfolio, currentPrice) ==
    [err |-> ValidateTradeOrder(trade, portfolio, currentPrice),
     trade |-> [trade EXCEPT !.price = currentPrice,
                             !.fees = calculateCommission(TradeValue(trade, currentPrice))],
     portfolio |-> portfolio]

\* lines 66-99 with the two objects the function has pointers to: no line
\* assigns to a field of trade or of portfolio, so both are after the call
\* what they were before it
ValidateTradeOrderCall(trade, portfolio, currentPrice) ==
    [err |-> ValidateTradeOrder(trade, portfolio, currentPrice),
     trade |-> trade,
     portfolio |-> portfolio]

\* lines 103-107: the trade is stamped before the side is looked at
StampTrade(trade, currentPrice) ==
    [trade EXCEPT !.price = currentPrice,
                  !.fees = calculateCommission(TradeValue(trade, currentPrice)),
                  !.status = "filled",
                  !.executed = TRUE]

\* mutant of BuyCash: the fee is not charged
BuyCashNoFee(cash, tradeValue, fees) == RSub(cash, tradeValue)

BuyCash(cash, tradeValue, fees) == RSub(cash, RAdd(tradeValue, fees))

\* mutant of SellCash: the fee is added instead of deducted
SellCashFeeAdded(cash, tradeValue, fees) == RAdd(cash, RAdd(tradeValue, fees))

SellCash(cash, tradeValue, fees) == RAdd(cash, RSub(tradeValue, fees))

\* a variant that leaves the quantity out
UnrealizedPnLPerShare(currentPrice, entryPrice, quantity) ==
    RSub(currentPrice, entryPrice)

UnrealizedPnL(currentPrice, entryPrice, quantity) ==
    RMul(RSub(currentPrice, entryPrice), Dec(quantity))

\* mutant of AverageEntryPrice: the plain mean of the two prices
AverageEntryPriceUnweighted(pos, trade, currentPrice) ==
    RDiv(RAdd(pos.entry_price, currentPrice), Dec(2))

\* lines 135-137: weighted-average cost of the enlarged position
AverageEntryPrice(pos, trade, currentPrice) ==
    LET totalCost == RAdd(RMul(pos.entry_price, Dec(pos.quantity)),
                          TradeValue(trade, currentPrice))
        totalQuantity == pos.quantity + trade.quantity
    IN  RDiv(totalCost, Dec(totalQuantity))

\* lines 119-129
NewPosition(trade, currentPrice) ==
    [id |-> 0, user_id |-> trade.user_id, portfolio_id |-> 0,
     symbol |-> trade.symbol, quantity |-> trade.quantity,
     entry_price |-> currentPrice, current_price |-> currentPrice,
     unrealized_pnl |-> Zero]

\* lines 134-141
BoughtPosition(pos, trade, currentPrice) ==
    LET entry == AverageEntryPrice(pos, trade, currentPrice)
        totalQuantity == pos.quantity + trade.quantity
    IN  [pos EXCEPT !.entry_price = entry,
                    !.quantity = totalQuantity,
                    !.current_price = currentPrice,
                    !.unrealized_pnl = UnrealizedPnL(currentPrice, entry, totalQuantity)]

\* mutant of SoldPosition: the entry price is re-based to the sale price
SoldPositionRebased(pos, trade, currentPrice) ==
    [pos EXCEPT !.quantity = pos.quantity - trade.quantity,
                !.entry_price = currentPrice,
                !.current_price = currentPrice,
                !.unrealized_pnl = Zero]

\* lines 153-155 and 163-164: the position after a sale that leaves shares;
\* for a full close only quantity and current price are touched before removal
SoldPosition(pos, trade, currentPrice) ==
    LET quantity == pos.quantity - trade.quantity
    IN  [pos EXCEPT !.quantity = quantity,
                    !.current_price = currentPrice,
                    !.unrealized_pnl =
                        IF quantity = 0 THEN pos.unrealized_pnl
                        ELSE UnrealizedPnL(currentPrice, pos.entry_price, quantity)]

RemoveAt(s, i) == SubSeq(s, 1, i - 1) \o SubSeq(s, i + 1, Len(s))

\* mutant of ClosePosition: a closed position stays in the slice
ClosePositionKept(positions, i, pos) == [positions EXCEPT ![i] = pos]

\* line 159: the closed position is cut out of the slice
ClosePosition(positions, i, pos) == RemoveAt(positions, i)

\* the result has the stamped trade, the mutated portfolio, the returned
\* *models.Position as <<position>> or <<>> for nil, and the error
ExecuteTradeOrder(trade0, portfolio, currentPrice) ==
    LET trade == StampTrade(trade0, currentPrice)
        tradeValue == TradeValue(trade, currentPrice)
        position == findPositionByIndex(portfolio.positions, trade.symbol)
    IN  IF trade.side = "buy" THEN
            LET cash == BuyCash(portfolio.cash, tradeValue, trade.fees)
            IN  IF position = 0 THEN
                    LET newPosition == NewPosition(trade, currentPrice)
                    IN  [trade |-> trade,
                         portfolio |-> [portfolio EXCEPT
                             !.cash = cash,
                             !.positions = Append(portfolio.positions, newPosition)],
                         position |-> <<newPosition>>,
                         err |-> "none"]
                ELSE
                    LET pos == BoughtPosition(portfolio.positions[position], trade, currentPrice)
                    IN  [trade |-> trade,
                         portfolio |-> [portfolio EXCEPT
                             !.cash = cash,
                             !.positions[position] = pos],
                         position |-> <<pos>>,
                         err |-> "none"]
        ELSE
            IF position = 0 THEN
                [trade |-> trade, portfolio |-> portfolio, position |-> <<>>,
                 err |-> "PositionNotFound"]
            ELSE
                LET cash == SellCash(portfolio.cash, tradeValue, trade.fees)
                    pos == SoldPosition(portfolio.positions[position], trade, currentPrice)
                IN  IF pos.quantity = 0 THEN
                        [trade |-> trade,
                         portfolio |-> [portfolio EXCEPT
                             !.cash = cash,
                             !.positions = ClosePosition(portfolio.positions, position, pos)],
                         position |-> <<>>,
                         err |-> "none"]
                    ELSE
                        [trade |-> trade,
                         portfolio |-> [portfolio EXCEPT
                             !.cash = cash,
                             !.positions[position] = pos],
                         position |-> <<pos>>,
                         err |-> "none"]

(***************************************************************************)
(* Domain harness: scripts/test-portfolio-domain.go drives the rule engine *)
(* on one in-memory portfolio, validating each order before executing it.  *)
(***************************************************************************)
\* a pending order as the callers build it (handlers ExecuteTrade, test script)
NewTrade(userID, symbol, side, quantity) ==
    [id |-> 0, user_id |-> userID, portfolio_id |-> 0, position_id |-> 0,
     symbol |-> symbol, quantity |-> quantity, price |-> Zero, side |-> side,
     status |-> "pending", fees |-> Zero, executed |-> FALSE]

NewPortfolio(id, userID, cash) ==
    [id |-> id, user_id |-> userID, cash |-> cash, total_value |-> cash,
     unrealized_pnl |-> Zero, realized_pnl |-> Zero, positions |-> <<>>]

NoCall ==
    [kind |-> "none", trade |-> NewTrade(TestUserID, "AAPL", "buy", 0),
     price |-> Zero, before |-> NewPortfolio(0, TestUserID, Zero),
     err |-> "none", position |-> <<>>]

InitDomain ==
    /\ \E cash \in OpeningCash : memPortfolio = NewPortfolio(1, TestUserID, cash)
    /\ lastCall = NoCall
    /\ executed = <<>>

Orders == {NewTrade(TestUserID, s, sd, q) : s \in Symbols, sd \in Sides, q \in Quantities}

\* ValidateTradeOrder rejects the order: nothing else is called; the harness
\* keeps the error it printed, the price, fee and status the trade has after
\* the call, and the portfolio as it was before the call
DomainReject(trade, price) ==
    /\ LET call == ValidateTradeOrderCall(trade, memPortfolio, price)
       IN  /\ call.err # "none"
           /\ memPortfolio' = call.portfolio
           /\ lastCall' = [NoCall EXCEPT !.kind = "rejected",
                                         !.err = call.err,
                                         !.trade.price = call.trade.price,
                                         !.trade.fees = call.trade.fees,
                                         !.trade.status = call.trade.status,
                                         !.before = memPortfolio]
    /\ UNCHANGED <<executed, serviceVars, job, queues>>

\* ValidateTradeOrder passes and ExecuteTradeOrder runs on the same snapshot
ExecuteWithin(maxCalls, trade, price) ==
    /\ Len(executed) < maxCalls
    /\ LET call == ValidateTradeOrderCall(trade, memPortfolio, price)
           res == ExecuteTradeOrder(call.trade, call.portfolio, price)
       IN  /\ call.err = "none"
           /\ memPortfolio' = res.portfolio
           /\ lastCall' = [kind |-> "executed", trade |-> res.trade, price |-> price,
                           before |-> memPortfolio, err |-> res.err,
                           position |-> res.position]
           /\ executed' = Append(executed, res.trade)
    /\ UNCHANGED <<serviceVars, job, queues>>

DomainExecute(trade, price) == ExecuteWithin(MaxCalls, trade, price)

\* the harness calls ExecuteTradeOrder itself, as in its Test 10: the order
\* is executed whether or not it would pass ValidateTradeOrder
ExecuteDirectly(trade, price) ==
    /\ Len(executed) < MaxScenarioCalls
    /\ LET res == ExecuteTradeOrder(trade, memPortfolio, price)
       IN  /\ memPortfolio' = res.portfolio
           /\ lastCall' = [kind |-> "direct", trade |-> res.trade, price |-> price,
                           before |-> memPortfolio, err |-> res.err,
                           position |-> res.position]
           /\ executed' = IF res.err = "none" THEN Append(executed, res.trade) ELSE executed
    /\ UNCHANGED <<serviceVars, job, queues>>

\* the harness on a portfolio with no position and cash 100000, or 1001
\* (the total cost of a notional of 1000): orders of 10 and 20 shares of
\* AAPL at 150, 155, 160 and at 50, where 10 shares have a notional under
\* and 20 shares the notional of 1000 at which the 0.1% fee reaches the 1.00
\* minimum
ScenarioOrders == {NewTrade(TestUserID, "AAPL", sd, q) : sd \in {"buy", "sell"}, q \in {10, 20}}
ScenarioPrices == {Dec(50), Dec(150), Dec(155), Dec(160)}
ScenarioCash == {Dec(100000), Dec(1001)}
ScenarioExecute(trade, price) == ExecuteWithin(MaxScenarioCalls, trade, price)


(***************************************************************************)
(* PostgreSQL schema (Makefile, "Hedge Fund Database Schema") and the      *)
(* persistence gateway: internal/portfolio/repository.                     *)
(***************************************************************************)
\* a value written to a NUMERIC(p, s) column is rounded to s decimals,
\* half away from zero; scale is 10^s
RoundTo(x, scale) ==
    LET g == GCD(x[2], scale)
        d == x[2] \div g
        s == scale \div g
        whole == abs(x[1]) \div d
        rest == abs(x[1]) % d
        q == whole * s + (2 * rest * s + d) \div (2 * d)
    IN  Norm(IF x[1] < 0 THEN -q ELSE q, scale)

Cents == 100
TenThousandths == 10000

\* portfolios: cash, total_value, unrealized_pnl, realized_pnl DECIMAL(15,2)
PortfolioRow(p) ==
    [id |-> p.id, user_id |-> p.user_id,
     cash |-> RoundTo(p.cash, Cents),
     total_value |-> RoundTo(p.total_value, Cents),
     unrealized_pnl |-> RoundTo(p.unrealized_pnl, Cents),
     realized_pnl |-> RoundTo(p.realized_pnl, Cents)]

\* positions: entry_price, current_price DECIMAL(10,4); unrealized_pnl DECIMAL(15,2)
PositionRow(p) ==
    [p EXCEPT !.entry_price = RoundTo(p.entry_price, TenThousandths),
              !.current_price = RoundTo(p.current_price, TenThousandths),
              !.unrealized_pnl = RoundTo(p.unrealized_pnl, Cents)]

\* trades: price DECIMAL(10,4), fees DECIMAL(10,2)
TradeRow(t) ==
    [t EXCEPT !.price = RoundTo(t.price, TenThousandths),
              !.fees = RoundTo(t.fees, Cents)]

RECURSIVE SortByIdDesc(_)
SortByIdDesc(rows) ==
    IF rows = {} THEN <<>>
    ELSE LET top == CHOOSE r \in rows : \A o \in rows : o.id <= r.id
         IN  <<top>> \o SortByIdDesc(rows \ {top})

\* SELECT ... FROM portfolios WHERE id = $1: the rows found (none: sql.ErrNoRows)
PortfolioRowsByID(d, portfolioID) == {p \in d.portfolios : p.id = portfolioID}

\* positions p JOIN portfolios pf ON p.user_id = pf.user_id WHERE pf.id = $1
\* ORDER BY p.created_at DESC (rows are created in id order)
GetPositionsByPortfolioID(d, portfolioID) ==
    SortByIdDesc({p \in d.positions :
        \E pf \in d.portfolios : pf.id = portfolioID /\ p.user_id = pf.user_id})

\* SELECT ... FROM positions WHERE user_id = $1 AND symbol = $2: QueryRow
\* scans the first of these rows, in no stated order
PositionRowsByUserAndSymbol(d, userID, symbol) ==
    {p \in d.positions : p.user_id = userID /\ p.symbol = symbol}

\* faulty variant of PositionAbsent: no row is reported as an error
PositionAbsentIsError == [err |-> "NotFound", existing |-> <<>>]

\* repository lines 379-382: GetPositionByUserAndSymbol finds no row
\* (sql.ErrNoRows) and returns nil, nil
PositionAbsent == [err |-> "none", existing |-> <<>>]

\* repository lines 280-310: SELECT ... FROM positions WHERE id = $1; no row
\* (sql.ErrNoRows) is the error "position not found"
GetPositionByID(d, positionID) ==
    IF \E p \in d.positions : p.id = positionID
    THEN [err |-> "none",
          position |-> <<CHOOSE p \in d.positions : p.id = positionID>>]
    ELSE [err |-> "NotFound", position |-> <<>>]

\* one statement applied to the rows
ApplyWrite(d, w) ==
    CASE w.op = "createPosition" ->
            [d EXCEPT !.positions = @ \cup {w.row}]
      [] w.op = "updatePosition" ->
            [d EXCEPT !.positions =
                {IF p.id = w.row.id
                 THEN [p EXCEPT !.quantity = w.row.quantity,
                                !.entry_price = w.row.entry_price,
                                !.current_price = w.row.current_price,
                                !.unrealized_pnl = w.row.unrealized_pnl]
                 ELSE p : p \in @}]
      [] w.op = "deletePosition" ->
            [d EXCEPT !.positions = {p \in @ : p.id # w.row.id}]
      [] w.op = "createTrade" ->
            [d EXCEPT !.trades = @ \cup {w.row}]
      [] w.op = "updatePortfolio" ->
            [d EXCEPT !.portfolios =
                {IF p.id = w.row.id THEN w.row ELSE p : p \in @}]

RECURSIVE ApplyWrites(_, _)
ApplyWrites(d, writes) ==
    IF writes = <<>> THEN d
    ELSE ApplyWrites(ApplyWrite(d, Head(writes)), Tail(writes))

\* faulty variant of PositionReferenced: the reference does not hold a
\* position back
PositionNeverReferenced(view, positionID) == FALSE

\* trades.position_id INTEGER REFERENCES positions(id): no ON DELETE action
TradeReferenceOK(view, trade) == \E p \in view.positions : p.id = trade.position_id
PositionReferenced(view, positionID) == \E t \in view.trades : t.position_id = positionID


(***************************************************************************)
(* Orchestration service: PortfolioService.ExecuteTrade, the transactional *)
(* variant (portfolio_service.go lines 385-498).  Each request runs in its *)
(* own goroutine; every repository call is one step.                       *)
(***************************************************************************)
Requests == {"r1", "r2"}
InitialCash == Dec(2000)
InitialPortfolioID == 1
MissingPortfolioID == InitialPortfolioID + 1
RequestPortfolioIDs == {InitialPortfolioID, MissingPortfolioID}

\* the orders requests are started with: <<symbol, side, quantity, price>>;
\* at 600.25 the fee of two shares is 1.2005, which is no whole number of cents
RequestOrders ==
    {<<"AAPL", "buy", 1, Dec(150)>>, <<"AAPL", "buy", 2, <<2401, 4>> >>,
     <<"MSFT", "buy", 1, Dec(150)>>, <<"AAPL", "sell", 1, Dec(150)>>,
     <<"AAPL", "sell", MaxQuantity, <<1, 2>> >>, <<"AAPL", "buy", 0, Dec(150)>>,
     <<"AAPL", "buy", 1, Zero>>, <<"AAPL", "hold", 1, Dec(150)>>}

IdleRequest ==
    [pc |-> "idle", portfolioID |-> 0,
     trade |-> NewTrade(TestUserID, "AAPL", "buy", 0), price |-> Zero,
     loaded |-> <<>>,       \* the portfolio as GetPortfolioByID returned it
     portfolio |-> <<>>,    \* the in-memory portfolio the request works on
     position |-> <<>>,     \* the position ExecuteTradeOrder returned
     existing |-> <<>>,     \* the row GetPositionByUserAndSymbol returned
     txOpen |-> FALSE, writes |-> <<>>,
     err |-> "none", result |-> <<>>,
     cancelled |-> "no"]    \* "running": ctx was cancelled before the return,
                            \* "returned": after it

\* scripts/test-portfolio-repository.go, Test 2: a position row stored by
\* repo.CreatePosition, which no trade row references
SeedPosition ==
    PositionRow([NewPosition(NewTrade(TestUserID, "AAPL", "buy", MaxQuantity), Dec(150))
                    EXCEPT !.id = 1])
SeededPositions == {{}, {SeedPosition}}

InitService ==
    /\ \E seeded \in SeededPositions :
        /\ db = [portfolios |-> {PortfolioRow(NewPortfolio(InitialPortfolioID, TestUserID, InitialCash))},
                 positions |-> seeded, trades |-> {}]
        /\ ids = [position |-> Cardinality(seeded), trade |-> 0]
    /\ req = [r \in Requests |-> IdleRequest]
    /\ started = 0

\* the rows a transaction sees: the committed rows and its own statements
TxView(r) == ApplyWrites(db, req[r].writes)

OpenWrites(o) == IF req[o].txOpen THEN req[o].writes ELSE <<>>

\* another open transaction holds a row lock (UPDATE, DELETE) on the row
RowLocked(r, ops, id) ==
    \E o \in Requests \ {r} : \E i \in 1..Len(OpenWrites(o)) :
        /\ OpenWrites(o)[i].op \in ops
        /\ OpenWrites(o)[i].row.id = id

\* another open transaction inserted a trade that references the position
KeyShared(r, positionID) ==
    \E o \in Requests \ {r} : \E i \in 1..Len(OpenWrites(o)) :
        /\ OpenWrites(o)[i].op = "createTrade"
        /\ OpenWrites(o)[i].row.position_id = positionID

\* mutant of Rollback: the deferred call commits what was written so far
RollbackCommits(d, writes) == ApplyWrites(d, writes)

\* line 419, defer tx.Rollback(): on an early return nothing of the
\* transaction becomes durable
Rollback(d, writes) == d

\* mutant of TxDurable: the statement runs on r.db and commits on its own
TxDurableAutoCommit(d, w) == ApplyWrite(d, w)

\* lines 435-478: every write is handed the transaction (CreatePositionTx,
\* UpdatePositionTx, DeletePositionTx, CreateTradeTx, UpdatePortfolioTx), so
\* the committed rows do not change when the statement runs
TxDurable(d, w) == d

\* a variant whose commit makes nothing durable
CommitLost(d, writes) == d

\* line 484, tx.Commit()
Commit(d, writes) == ApplyWrites(d, writes)

\* mutant of AfterValidation: the validation error is logged, not returned
AfterValidationIgnored(err) == "beginTx"

\* lines 394-403: a validation error ends the request
AfterValidation(err) == IF err # "none" THEN "done" ELSE "beginTx"

\* the request returns err; an open transaction is rolled back
Fail(r, err) ==
    /\ db' = Rollback(db, OpenWrites(r))
    /\ req' = [req EXCEPT ![r].pc = "done", ![r].err = err,
                          ![r].txOpen = FALSE, ![r].result = <<>>]

\* statement w of the transaction of r; rec is the request after it
Exec(r, w, rec) ==
    /\ db' = TxDurable(db, w)
    /\ req' = [req EXCEPT ![r] = [rec EXCEPT !.writes = Append(@, w)]]

Begin(r, portfolioID, order) ==
    /\ req[r].pc \in {"idle", "done"}
    /\ started < MaxRequests
    /\ started' = started + 1
    /\ req' = [req EXCEPT ![r] =
            [IdleRequest EXCEPT !.pc = "getPortfolio",
                                !.portfolioID = portfolioID,
                                !.trade = NewTrade(TestUserID, order[1], order[2], order[3]),
                                !.price = order[4]]]
    /\ UNCHANGED <<db, ids, domainVars, job, queues>>

\* repository lines 73-86 and 102: the portfolio struct filled from a row
LoadedPortfolio(row, positions) ==
    [id |-> row.id, user_id |-> row.user_id, cash |-> row.cash,
     total_value |-> row.total_value, unrealized_pnl |-> row.unrealized_pnl,
     realized_pnl |-> row.realized_pnl, positions |-> positions]

\* line 388 and repository lines 66-94: the portfolio row is read
GetPortfolioRow(r) ==
    /\ req[r].pc = "getPortfolio"
    /\ \/ Fail(r, "PersistenceFailure")
       \/ /\ PortfolioRowsByID(db, req[r].portfolioID) = {}
          /\ Fail(r, "NotFound")
       \/ \E row \in PortfolioRowsByID(db, req[r].portfolioID) :
            /\ req' = [req EXCEPT ![r].pc = "getPositions",
                                  ![r].loaded = <<LoadedPortfolio(row, <<>>)>>]
            /\ UNCHANGED db
    /\ UNCHANGED <<ids, started, domainVars, job, queues>>

\* repository lines 96-104: the positions are read by a second query
GetPortfolioPositions(r) ==
    /\ req[r].pc = "getPositions"
    /\ \/ Fail(r, "PersistenceFailure")
       \/ /\ req' = [req EXCEPT ![r].pc = "validate",
                                ![r].loaded = <<[req[r].loaded[1] EXCEPT
                                    !.positions = GetPositionsByPortfolioID(db, req[r].portfolioID)]>>]
          /\ UNCHANGED db
    /\ UNCHANGED <<ids, started, domainVars, job, queues>>

\* lines 393-412: validate, execute in memory, set portfolio_id on the trade
ValidateAndExecute(r) ==
    /\ req[r].pc = "validate"
    /\ LET portfolio == req[r].loaded[1]
           err == ValidateTradeOrder(req[r].trade, portfolio, req[r].price)
           res == ExecuteTradeOrder(req[r].trade, portfolio, req[r].price)
       IN  IF AfterValidation(err) = "done" THEN Fail(r, err)
           ELSE IF res.err # "none" THEN Fail(r, "ExecuteFailed")
           ELSE /\ req' = [req EXCEPT
                        ![r].pc = "beginTx", ![r].err = err,
                        ![r].trade = [res.trade EXCEPT !.portfolio_id = req[r].portfolioID],
                        ![r].portfolio = <<res.portfolio>>,
                        ![r].position = res.position]
                /\ UNCHANGED db
    /\ UNCHANGED <<ids, started, domainVars, job, queues>>

\* lines 415-419
BeginTx(r) ==
    /\ req[r].pc = "beginTx"
    /\ \/ Fail(r, "PersistenceFailure")
       \/ /\ req' = [req EXCEPT ![r].pc = "checkExisting", ![r].txOpen = TRUE]
          /\ UNCHANGED db
    /\ UNCHANGED <<ids, started, domainVars, job, queues>>

\* lines 428-431 and 454-457: GetPositionByUserAndSymbol runs on r.db, outside
\* the transaction; with no row and no position to write the trade is next
CheckExisting(r) ==
    /\ req[r].pc = "checkExisting"
    /\ LET rows == PositionRowsByUserAndSymbol(db, req[r].trade.user_id, req[r].trade.symbol)
       IN  \/ Fail(r, "PersistenceFailure")
           \/ /\ rows = {}
              /\ IF PositionAbsent.err # "none" THEN Fail(r, PositionAbsent.err)
                 ELSE /\ req' = [req EXCEPT ![r].existing = PositionAbsent.existing,
                                 ![r].pc = IF req[r].position = <<>> THEN "createTrade"
                                           ELSE "writePosition"]
                      /\ UNCHANGED db
           \/ \E row \in rows :
                /\ req' = [req EXCEPT ![r].existing = <<row>>, ![r].pc = "writePosition"]
                /\ UNCHANGED db
    /\ UNCHANGED <<ids, started, domainVars, job, queues>>

\* faulty variant of FinalPosition: the written position is not handed back
FinalPositionNone(position) == <<>>

\* lines 422, 439, 448 and 497: finalPosition = position after the write,
\* nil when the sell closed the position; it is what ExecuteTrade returns
FinalPosition(position) == <<position>>

\* lines 433-439 and 451: INSERT INTO positions ... RETURNING id
CreatePositionTx(r) ==
    /\ req[r].pc = "writePosition"
    /\ req[r].position # <<>> /\ req[r].existing = <<>>
    /\ \/ Fail(r, "PersistenceFailure") /\ UNCHANGED ids
       \/ LET position == [req[r].position[1] EXCEPT
                              !.id = ids.position + 1,
                              !.portfolio_id = req[r].portfolioID]
          IN  /\ ids' = [ids EXCEPT !.position = @ + 1]
              /\ Exec(r, [op |-> "createPosition", row |-> PositionRow(position)],
                      [req[r] EXCEPT !.pc = "createTrade",
                                     !.position = <<position>>,
                                     !.result = FinalPosition(position),
                                     !.trade.position_id = position.id])
    /\ UNCHANGED <<started, domainVars, job, queues>>

\* lines 440-451: UPDATE positions ... WHERE id = $1; the statement waits for
\* a row lock and fails when no row is affected
UpdatePositionTx(r) ==
    /\ req[r].pc = "writePosition"
    /\ req[r].position # <<>> /\ req[r].existing # <<>>
    /\ ~RowLocked(r, {"updatePosition", "deletePosition"}, req[r].existing[1].id)
    /\ \/ Fail(r, "PersistenceFailure")
       \/ LET position == [req[r].position[1] EXCEPT
                              !.id = req[r].existing[1].id,
                              !.portfolio_id = req[r].portfolioID]
          IN  IF \E p \in TxView(r).positions : p.id = position.id
              THEN Exec(r, [op |-> "updatePosition", row |-> PositionRow(position)],
                        [req[r] EXCEPT !.pc = "createTrade",
                                       !.position = <<position>>,
                                       !.result = FinalPosition(position),
                                       !.trade.position_id = position.id])
              ELSE Fail(r, "PersistenceFailure")
    /\ UNCHANGED <<ids, started, domainVars, job, queues>>

\* lines 452-468: the sell closed the position; DELETE FROM positions WHERE
\* id = $1 fails while a trade row references the position
DeletePositionTx(r) ==
    /\ req[r].pc = "writePosition"
    /\ req[r].position = <<>> /\ req[r].existing # <<>>
    /\ ~RowLocked(r, {"updatePosition", "deletePosition"}, req[r].existing[1].id)
    /\ ~KeyShared(r, req[r].existing[1].id)
    /\ \/ Fail(r, "PersistenceFailure")
       \/ LET id == req[r].existing[1].id
          IN  IF \A p \in TxView(r).positions : p.id # id
              THEN Fail(r, "PersistenceFailure")
              ELSE IF PositionReferenced(TxView(r), id)
              THEN Fail(r, "ForeignKeyViolation")
              ELSE Exec(r, [op |-> "deletePosition", row |-> req[r].existing[1]],
                        [req[r] EXCEPT !.pc = "createTrade",
                                       !.trade.position_id = id])
    /\ UNCHANGED <<ids, started, domainVars, job, queues>>

\* lines 471-475: INSERT INTO trades ... RETURNING id; position_id must
\* reference a position row
CreateTradeTx(r) ==
    /\ req[r].pc = "createTrade"
    /\ ~RowLocked(r, {"deletePosition"}, req[r].trade.position_id)
    /\ \/ Fail(r, "PersistenceFailure") /\ UNCHANGED ids
       \/ LET trade == [req[r].trade EXCEPT !.id = ids.trade + 1]
          IN  IF TradeReferenceOK(TxView(r), trade)
              THEN /\ ids' = [ids EXCEPT !.trade = @ + 1]
                   /\ Exec(r, [op |-> "createTrade", row |-> TradeRow(trade)],
                           [req[r] EXCEPT !.pc = "updatePortfolio", !.trade = trade])
              ELSE Fail(r, "ForeignKeyViolation") /\ UNCHANGED ids
    /\ UNCHANGED <<started, domainVars, job, queues>>

\* lines 477-481: UPDATE portfolios SET cash = ... WHERE id = $1
UpdatePortfolioTx(r) ==
    /\ req[r].pc = "updatePortfolio"
    /\ ~RowLocked(r, {"updatePortfolio"}, req[r].portfolio[1].id)
    /\ \/ Fail(r, "PersistenceFailure")
       \/ IF \E p \in TxView(r).portfolios : p.id = req[r].portfolio[1].id
          THEN Exec(r, [op |-> "updatePortfolio", row |-> PortfolioRow(req[r].portfolio[1])],
                    [req[r] EXCEPT !.pc = "commit"])
          ELSE Fail(r, "PersistenceFailure")
    /\ UNCHANGED <<ids, started, domainVars, job, queues>>

\* lines 483-497
CommitTx(r) ==
    /\ req[r].pc = "commit"
    /\ \/ Fail(r, "PersistenceFailure")
       \/ /\ db' = Commit(db, req[r].writes)
          /\ req' = [req EXCEPT ![r].pc = "done", ![r].txOpen = FALSE]
    /\ UNCHANGED <<ids, started, domainVars, job, queues>>

ExecuteTrade(r) ==
    \/ GetPortfolioRow(r)
    \/ GetPortfolioPositions(r)
    \/ ValidateAndExecute(r)
    \/ BeginTx(r)
    \/ CheckExisting(r)
    \/ CreatePositionTx(r)
    \/ UpdatePositionTx(r)
    \/ DeletePositionTx(r)
    \/ CreateTradeTx(r)
    \/ UpdatePortfolioTx(r)
    \/ CommitTx(r)

\* The context of request r is cancelled (timeout or client disconnect).
\* Every repository call of ExecuteTrade is handed ctx (lines 388, 415,
\* 427-478) and the transaction is begun on it, so the call the request is
\* at, or the one it comes to next, returns ctx.Err(), tx.Commit of line 484
\* included; ExecuteTrade returns the error and the deferred Rollback of
\* line 419 ends an open transaction.  Once ExecuteTrade has returned, the
\* cancellation finds nothing to end.
Cancel(r) ==
    /\ req[r].pc # "idle"
    /\ req[r].cancelled = "no"
    /\ IF req[r].pc = "done"
       THEN /\ req' = [req EXCEPT ![r].cancelled = "returned"]
            /\ UNCHANGED db
       ELSE /\ db' = Rollback(db, OpenWrites(r))
            /\ req' = [req EXCEPT ![r].pc = "done", ![r].err = "Cancelled",
                                  ![r].txOpen = FALSE, ![r].result = <<>>,
                                  ![r].cancelled = "running"]
    /\ UNCHANGED <<ids, started, domainVars, job, queues>>

(***************************************************************************)
(* The other calls that write: PortfolioService.UpdatePortfolioWithMarket- *)
(* Data, UpdatePortfolio and DeletePortfolio.  They run on r.db, outside   *)
(* any ExecuteTrade transaction.                                           *)
(***************************************************************************)
\* currentPrices: a price for some of the symbols
MarketQuotes == {("AAPL" :> Dec(600)), ("AAPL" :> <<1, 2>> @@ "MSFT" :> Dec(150))}

\* a variant that also writes the realized PnL
UpdatePortfolioWithMarketDataRealizing(portfolio, currentPrices) ==
    [portfolio EXCEPT !.realized_pnl = Dec(1)]

RECURSIVE QuotedPnL(_, _)
\* totalUnrealizedPnL of the loop of lines 239-249
QuotedPnL(positions, currentPrices) ==
    IF positions = <<>> THEN Zero
    ELSE RAdd(IF Head(positions).symbol \in DOMAIN currentPrices
              THEN Head(positions).unrealized_pnl ELSE Zero,
              QuotedPnL(Tail(positions), currentPrices))

RECURSIVE QuotedValue(_, _)
\* the market value that the loop of lines 239-249 adds to the cash
QuotedValue(positions, currentPrices) ==
    IF positions = <<>> THEN Zero
    ELSE RAdd(IF Head(positions).symbol \in DOMAIN currentPrices
              THEN RMul(Dec(Head(positions).quantity), Head(positions).current_price)
              ELSE Zero,
              QuotedValue(Tail(positions), currentPrices))

\* domain lines 235-254: positions with a quote are re-priced, the
\* portfolio totals are recomputed; cash is left as it was loaded
UpdatePortfolioWithMarketData(portfolio, currentPrices) ==
    LET positions ==
            [i \in 1..Len(portfolio.positions) |->
                LET p == portfolio.positions[i]
                IN  IF p.symbol \in DOMAIN currentPrices
                    THEN [p EXCEPT !.current_price = currentPrices[p.symbol],
                                   !.unrealized_pnl =
                                       UnrealizedPnL(currentPrices[p.symbol], p.entry_price, p.quantity)]
                    ELSE p]
    IN  [portfolio EXCEPT
            !.positions = positions,
            !.unrealized_pnl = QuotedPnL(positions, currentPrices),
            !.total_value = RAdd(portfolio.cash, QuotedValue(positions, currentPrices))]

\* the quotes of the harness, and the same without AAPL
ScenarioQuotes == {("AAPL" :> Dec(155) @@ "MSFT" :> Dec(310)), ("MSFT" :> Dec(310))}

\* the harness calls UpdatePortfolioWithMarketData on its portfolio
ScenarioRefresh(currentPrices) ==
    /\ memPortfolio' = UpdatePortfolioWithMarketData(memPortfolio, currentPrices)
    /\ lastCall' = [kind |-> "refreshed", trade |-> NoCall.trade, price |-> Zero,
                    before |-> memPortfolio, err |-> "none", position |-> <<>>,
                    prices |-> currentPrices]
    /\ UNCHANGED <<executed, serviceVars, job, queues>>

(***************************************************************************)
(* The job queue (package queue): Manager, Worker and the retries.         *)
(* queues = [lists, status, asleep, handled, created, closed, redisUp]:    *)
(* the Redis lists, the cached job statuses, the jobs held by the back-off *)
(* goroutines, the number of Handle calls per job, the number of jobs      *)
(* created, whether Close cancelled the manager's context and whether      *)
(* Redis answers.                                                          *)
(***************************************************************************)
MaxJobs == 2

\* uuid.New(): one fresh id per job created
JobIDs == 1..MaxJobs

\* EnqueueAIAnalysis line 141, EnqueueMarketDataUpdate line 173
AIAnalysisMaxRetries == 3
MarketDataMaxRetries == 5

JobTypes == {"ai_analysis", "market_data_update"}

\* lines 452-469 with the names of models/jobs.go lines 83-101
getQueueForJobType(jobType) ==
    CASE jobType = "ai_analysis" -> "queue:ai_analysis"
      [] jobType = "market_data_update" -> "queue:market_data"
      [] OTHER -> "queue:maintenance"

Queues == {getQueueForJobType(jobType) : jobType \in JobTypes}

\* NewManager, lines 95-103: nothing queued, no status cached
NoJobs ==
    [lists |-> [queue \in Queues |-> <<>>],
     status |-> [id \in JobIDs |-> "none"],
     asleep |-> {},
     handled |-> [id \in JobIDs |-> 0],
     created |-> 0,
     closed |-> FALSE,
     redisUp |-> TRUE]

\* a Redis command with the manager's context fails once Close cancelled the
\* context, and while Redis does not answer
RedisFails(q) == q.closed \/ ~q.redisUp

\* Manager.EnqueueJob, lines 110-132, and the client's LPUSH: the job goes to
\* the head of the list of its type's queue; on an error nothing is queued
\* and the error is returned
EnqueueJob(q, j) ==
    IF RedisFails(q) THEN q
    ELSE [q EXCEPT !.lists[getQueueForJobType(j.type)] = <<j>> \o @]

\* models.Job as it is marshalled: id, type, max_retries, retries
NewJob(id, jobType, maxRetries) ==
    [id |-> id, type |-> jobType, max_retries |-> maxRetries, retries |-> 0]

\* lines 135-159
EnqueueAIAnalysis ==
    /\ queues.created < MaxJobs
    /\ queues' = IF RedisFails(queues) THEN queues
                 ELSE EnqueueJob([queues EXCEPT !.created = @ + 1],
                                 NewJob(queues.created + 1, "ai_analysis", AIAnalysisMaxRetries))
    /\ UNCHANGED <<domainVars, serviceVars, job>>

\* lines 162-190
EnqueueMarketDataUpdate ==
    /\ queues.created < MaxJobs
    /\ queues' = IF RedisFails(queues) THEN queues
                 ELSE EnqueueJob([queues EXCEPT !.created = @ + 1],
                                 NewJob(queues.created + 1, "market_data_update", MarketDataMaxRetries))
    /\ UNCHANGED <<domainVars, serviceVars, job>>

\* Worker.processJob, lines 408-449.  err is what handler.Handle returned.
\* The status 'running' of line 414 is overwritten before the call returns.
\* After a failure with retries left the job, its counter incremented, is
\* kept by a goroutine that sleeps before it calls EnqueueJob.
processJob(q, j, err) ==
    LET handled == [q EXCEPT !.handled[j.id] = @ + 1]
    IN  IF err
        THEN IF j.retries < j.max_retries
             THEN [handled EXCEPT !.status[j.id] = "retrying",
                                  !.asleep = @ \cup {[j EXCEPT !.retries = @ + 1]}]
             ELSE [handled EXCEPT !.status[j.id] = "failed"]
        ELSE [handled EXCEPT !.status[j.id] = "completed"]

\* the job BRPOP takes from a list: its last element
BRPop(list) == list[Len(list)]

\* client DequeueJob, lines 128-147
DequeueJob(q, queue) ==
    [q EXCEPT !.lists[queue] = SubSeq(@, 1, Len(@) - 1)]

\* Worker.run, lines 375-405: one pass of the loop that finds a job.  No
\* JobHandler is implemented in the repository: whether it can handle the
\* type and whether Handle fails is the handler's choice.  A job the handler
\* cannot handle is dropped.
Run(queue) ==
    /\ ~RedisFails(queues)
    /\ queues.lists[queue] # <<>>
    /\ LET j == BRPop(queues.lists[queue])
           dequeued == DequeueJob(queues, queue)
       IN  \/ queues' = dequeued
           \/ \E err \in BOOLEAN : queues' = processJob(dequeued, j, err)
    /\ UNCHANGED <<domainVars, serviceVars, job>>

\* lines 434-438: the goroutine wakes up and calls EnqueueJob; what
\* EnqueueJob returns is not looked at
Reenqueue(j) ==
    /\ j \in queues.asleep
    /\ queues' = EnqueueJob([queues EXCEPT !.asleep = @ \ {j}], j)
    /\ UNCHANGED <<domainVars, serviceVars, job>>

\* Manager.Close, lines 472-475
Close ==
    /\ ~queues.closed
    /\ queues' = [queues EXCEPT !.closed = TRUE]
    /\ UNCHANGED <<domainVars, serviceVars, job>>

\* Redis stops answering, and answers again
RedisDown ==
    /\ queues.redisUp
    /\ queues' = [queues EXCEPT !.redisUp = FALSE]
    /\ UNCHANGED <<domainVars, serviceVars, job>>

RedisUp ==
    /\ ~queues.redisUp
    /\ queues' = [queues EXCEPT !.redisUp = TRUE]
    /\ UNCHANGED <<domainVars, serviceVars, job>>

JobIdle ==
    /\ job = [pc |-> "idle", portfolio |-> <<>>,
              deleted |-> <<>>]    \* the last DeletePortfolio call and its error
    /\ queues = NoJobs

\* service lines 361-367: the portfolio is loaded and re-priced in memory
RefreshLoad(portfolioID, currentPrices) ==
    /\ job.pc = "idle"
    /\ started < MaxRequests
    /\ started' = started + 1
    /\ \E row \in PortfolioRowsByID(db, portfolioID) :
        job' = [job EXCEPT !.pc = "save",
                !.portfolio = <<UpdatePortfolioWithMarketData(
                    LoadedPortfolio(row, GetPositionsByPortfolioID(db, portfolioID)),
                    currentPrices)>>]
    /\ UNCHANGED <<db, ids, req, domainVars, queues>>

\* service lines 369-373 and repository lines 159-197: UPDATE portfolios
\* ... WHERE id = $1 with the values in memory; only the portfolio row is
\* saved.  The statement waits for a row lock.
RefreshSave ==
    /\ job.pc = "save"
    /\ ~RowLocked("", {"updatePortfolio"}, job.portfolio[1].id)
    /\ db' = ApplyWrite(db, [op |-> "updatePortfolio", row |-> PortfolioRow(job.portfolio[1])])
    /\ job' = [job EXCEPT !.pc = "idle", !.portfolio = <<>>]
    /\ UNCHANGED <<ids, req, started, domainVars, queues>>

\* the cash a caller of UpdatePortfolio sets (a deposit to the opening cash,
\* a withdrawal of everything)
DepositedCash == {InitialCash, Zero}

\* service lines 568-581: the caller's portfolio struct is written as it is
UpdatePortfolio(portfolioID, cash) ==
    /\ started < MaxRequests
    /\ started' = started + 1
    /\ ~RowLocked("", {"updatePortfolio"}, portfolioID)
    /\ \E row \in PortfolioRowsByID(db, portfolioID) :
        db' = ApplyWrite(db, [op |-> "updatePortfolio",
                              row |-> PortfolioRow(LoadedPortfolio([row EXCEPT !.cash = cash], <<>>))])
    /\ UNCHANGED <<ids, req, job, domainVars, queues>>

\* the rows a DELETE of these positions would leave referenced by a trade
\* repository line 208: DELETE FROM positions WHERE user_id = (SELECT
\* user_id FROM portfolios WHERE id = $1), the rows this statement deletes
PositionsOfUserOf(d, portfolioID) ==
    {p \in d.positions :
        \E pf \in d.portfolios : pf.id = portfolioID /\ p.user_id = pf.user_id}

DeleteBlocked(d, positions) ==
    \E p \in positions : PositionReferenced(d, p.id)

\* repository lines 200-236, one transaction: DELETE FROM positions WHERE
\* user_id = (the user of the portfolio); DELETE FROM portfolios WHERE id =
\* $1, which cascades to the positions and trades with that portfolio_id.
\* A position that a trade references cannot go (REFERENCES positions(id)
\* has no ON DELETE action); then the transaction is rolled back.  With no
\* portfolio row the subquery is NULL, no row is deleted, and lines 227-229
\* return "portfolio not found".  The statements wait for the locks of open
\* transactions.
DeletePortfolio(portfolioID) ==
    /\ started < MaxRequests
    /\ started' = started + 1
    /\ \A r \in Requests : OpenWrites(r) = <<>>
    /\ LET done(err) == job' = [job EXCEPT !.deleted =
                <<[id |-> portfolioID, err |-> err, call |-> started']>>]
       IN  \/ /\ PortfolioRowsByID(db, portfolioID) = {}
              /\ db' = Rollback(db, <<>>)
              /\ done("NotFound")
           \/ \E row \in PortfolioRowsByID(db, portfolioID) :
                LET ofUser == PositionsOfUserOf(db, portfolioID)
                    ofPortfolio == {p \in db.positions : p.portfolio_id = portfolioID}
                IN  IF DeleteBlocked(db, ofUser \cup ofPortfolio)
                    THEN db' = Rollback(db, <<>>) /\ done("ForeignKeyViolation")
                    ELSE /\ db' = [portfolios |-> db.portfolios \ {row},
                                   positions |-> db.positions \ (ofUser \cup ofPortfolio),
                                   trades |-> {t \in db.trades : t.portfolio_id # portfolioID}]
                         /\ done("none")
    /\ UNCHANGED <<ids, req, domainVars, queues>>

(***************************************************************************)
(* Analytics of the domain layer: internal/portfolio/domain/portfolio.go.  *)
(* Percentages are exact fractions.                                        *)
(***************************************************************************)
RECURSIVE PricedValue(_, _)
\* the loop of lines 20-24: quantity x price of the positions with a price
PricedValue(positions, currentPrices) ==
    IF positions = <<>> THEN Zero
    ELSE RAdd(IF Head(positions).symbol \in DOMAIN currentPrices
              THEN RMul(Dec(Head(positions).quantity), currentPrices[Head(positions).symbol])
              ELSE Zero,
              PricedValue(Tail(positions), currentPrices))

\* domain lines 17-27
CalculatePortfolioValue(portfolio, currentPrices) ==
    RAdd(portfolio.cash, PricedValue(portfolio.positions, currentPrices))

Percent(value, totalValue) == RMul(RDiv(value, totalValue), Dec(100))

\* indexes of the positions that have a price
Priced(portfolio, currentPrices) ==
    {i \in 1..Len(portfolio.positions) : portfolio.positions[i].symbol \in DOMAIN currentPrices}

\* the position whose entry a Go map keeps for a symbol: the last one written
LastPriced(portfolio, currentPrices, symbol) ==
    LET same == {i \in Priced(portfolio, currentPrices) : portfolio.positions[i].symbol = symbol}
    IN  portfolio.positions[CHOOSE i \in same : \A j \in same : j <= i]

\* a variant that leaves the cash entry out
CalculatePortfolioAllocationNoCash(portfolio, currentPrices) ==
    LET totalValue == CalculatePortfolioValue(portfolio, currentPrices)
        keys == {portfolio.positions[i].symbol : i \in Priced(portfolio, currentPrices)}
    IN  IF RLt(Zero, totalValue)
        THEN [k \in keys |->
                LET position == LastPriced(portfolio, currentPrices, k)
                IN  Percent(RMul(Dec(position.quantity), currentPrices[k]), totalValue)]
        ELSE [k \in {} |-> Zero]

\* domain lines 171-191: a map from "CASH" and from the symbol of every
\* priced position to its share of the total value, in percent; nothing is
\* entered unless the total value is positive
CalculatePortfolioAllocation(portfolio, currentPrices) ==
    LET totalValue == CalculatePortfolioValue(portfolio, currentPrices)
        keys == {"CASH"} \cup {portfolio.positions[i].symbol : i \in Priced(portfolio, currentPrices)}
    IN  IF RLt(Zero, totalValue)
        THEN [k \in keys |->
                IF k = "CASH" THEN Percent(portfolio.cash, totalValue)
                ELSE LET position == LastPriced(portfolio, currentPrices, k)
                     IN  Percent(RMul(Dec(position.quantity), currentPrices[k]), totalValue)]
        ELSE [k \in {} |-> Zero]

\* domain lines 372-379
getRebalanceAction(diff) ==
    IF RLt(Dec(1), diff) THEN "buy"
    ELSE IF RLt(diff, Dec(-1)) THEN "sell"
    ELSE "hold"

\* domain lines 381-386
RAbs(x) == IF RLt(x, Zero) THEN RNeg(x) ELSE x

\* int64(x) of a float64 in range: the fraction is dropped
Int64(x) == IF x[1] >= 0 THEN x[1] \div x[2] ELSE -((-x[1]) \div x[2])

\* domain lines 288-322: one recommendation per target symbol that has a
\* price and is more than one point away from its current percentage; the
\* order of the list is that of the iteration of a Go map, so the list is
\* kept as a set
RebalanceRecommendations(portfolio, targetAllocations, currentPrices) ==
    LET totalValue == CalculatePortfolioValue(portfolio, currentPrices)
        currentAllocations == CalculatePortfolioAllocation(portfolio, currentPrices)
        currentPercent(symbol) ==
            IF symbol \in DOMAIN currentAllocations THEN currentAllocations[symbol] ELSE Zero
        diff(symbol) == RSub(targetAllocations[symbol], currentPercent(symbol))
        targetValue(symbol) == RMul(RDiv(targetAllocations[symbol], Dec(100)), totalValue)
        currentValue(symbol) == RMul(RDiv(currentPercent(symbol), Dec(100)), totalValue)
    IN  {[symbol |-> symbol,
          current_percent |-> currentPercent(symbol),
          target_percent |-> targetAllocations[symbol],
          difference |-> diff(symbol),
          target_value |-> targetValue(symbol),
          current_value |-> currentValue(symbol),
          action |-> getRebalanceAction(diff(symbol)),
          estimated_shares |->
              Int64(RDiv(RSub(targetValue(symbol), currentValue(symbol)), currentPrices[symbol]))] :
         symbol \in {s \in DOMAIN targetAllocations :
                        /\ RLt(Dec(1), RAbs(diff(s)))
                        /\ s \in DOMAIN currentPrices}}

\* float64 values that are no number: the results of a division by 0.0
PosInf == <<1, 0>>
NegInf == <<-1, 0>>
NaN == <<0, 0>>
IsFinite(x) == x[2] # 0

\* x / y of float64 for finite x and y
FloatDiv(x, y) ==
    IF y # Zero THEN RDiv(x, y)
    ELSE IF RLt(Zero, x) THEN PosInf
    ELSE IF RLt(x, Zero) THEN NegInf
    ELSE NaN

RECURSIVE SquaredWeights(_, _, _)
\* the loop of lines 360-366 for a total value other than 0
SquaredWeights(positions, totalValue, currentPrices) ==
    IF positions = <<>> THEN Zero
    ELSE LET position == Head(positions)
             weight == RDiv(RMul(Dec(position.quantity), currentPrices[position.symbol]), totalValue)
         IN  RAdd(IF position.symbol \in DOMAIN currentPrices THEN RMul(weight, weight) ELSE Zero,
                  SquaredWeights(Tail(positions), totalValue, currentPrices))

\* a variant without the early return of lines 354-356
calculateDiversificationScoreOfAny(positions, totalValue, currentPrices) ==
    IF \A i \in 1..Len(positions) : positions[i].symbol \notin DOMAIN currentPrices THEN Dec(100)
    ELSE IF totalValue = Zero THEN NegInf
    ELSE RMul(RSub(Dec(1), SquaredWeights(positions, totalValue, currentPrices)), Dec(100))

\* domain lines 353-370; a priced position is worth more than 0, so with a
\* total value of 0.0 its weight is +Inf and the score -Inf
calculateDiversificationScore(positions, totalValue, currentPrices) ==
    IF Len(positions) <= 1 THEN Zero
    ELSE IF \A i \in 1..Len(positions) : positions[i].symbol \notin DOMAIN currentPrices THEN Dec(100)
    ELSE IF totalValue = Zero THEN NegInf
    ELSE RMul(RSub(Dec(1), SquaredWeights(positions, totalValue, currentPrices)), Dec(100))

RECURSIVE MaxPositionPercent(_, _, _)
\* the loop of lines 265-273 for a total value other than 0
MaxPositionPercent(positions, totalValue, currentPrices) ==
    IF positions = <<>> THEN Zero
    ELSE LET position == Head(positions)
             rest == MaxPositionPercent(Tail(positions), totalValue, currentPrices)
             positionPercent ==
                 Percent(RMul(Dec(position.quantity), currentPrices[position.symbol]), totalValue)
         IN  IF position.symbol \in DOMAIN currentPrices /\ RLt(rest, positionPercent)
             THEN positionPercent ELSE rest

\* domain lines 257-285
CalculateRiskMetrics(portfolio, currentPrices) ==
    LET totalValue == CalculatePortfolioValue(portfolio, currentPrices)
        cashShare == FloatDiv(portfolio.cash, totalValue)
    IN  [total_value |-> totalValue,
         position_count |-> Len(portfolio.positions),
         max_position_percent |->
             IF totalValue # Zero
             THEN MaxPositionPercent(portfolio.positions, totalValue, currentPrices)
             ELSE IF Priced(portfolio, currentPrices) # {} THEN PosInf ELSE Zero,
         cash_percent |-> IF IsFinite(cashShare) THEN RMul(cashShare, Dec(100)) ELSE cashShare,
         diversification_score |->
             calculateDiversificationScore(portfolio.positions, totalValue, currentPrices)]

\* the portfolios handed to the analytics: cash 0 or 1000, or the -1.00 left
\* by two sales of one share at 0.50 from cash 0, and up to MaxPositions
\* loaded positions of 1 or MaxQuantity shares entered at 150; two positions
\* may be of one symbol, as two rows of one user may be
AnalyticsCash == {Dec(-1), Zero, Dec(1000)}
AnalyticsPortfolios ==
    UNION {{[NewPortfolio(InitialPortfolioID, TestUserID, cash) EXCEPT
                !.positions =
                    [i \in 1..n |->
                        [NewPosition(NewTrade(TestUserID, symbol[i], "buy", quantity[i]), Dec(150))
                            EXCEPT !.id = i, !.portfolio_id = InitialPortfolioID]]] :
                cash \in AnalyticsCash,
                symbol \in [1..n -> Symbols],
                quantity \in [1..n -> {1, MaxQuantity}]} :
           n \in 0..MaxPositions}

\* the quotes of the market client: one symbol or both priced
AnalyticsQuotes ==
    {("AAPL" :> Dec(150)),
     ("AAPL" :> <<1, 2>> @@ "MSFT" :> Dec(150)),
     ("AAPL" :> Dec(150) @@ "MSFT" :> Dec(300))}

\* the target percentages of a rebalance request, for one or both symbols:
\* 1 and 99 are one point from holding nothing and from holding only that
TargetPercents == {Dec(1), Dec(30), Dec(99)}
TargetAllocations ==
    UNION {[symbols -> TargetPercents] : symbols \in (SUBSET Symbols) \ {{}}}

\* service lines 556-563 on the loaded portfolio
GetRebalanceRecommendations(targetAllocations, currentPrices) ==
    /\ lastCall' = [kind |-> "rebalance", prices |-> currentPrices,
                    targets |-> targetAllocations,
                    recommendations |->
                        RebalanceRecommendations(memPortfolio, targetAllocations, currentPrices)]
    /\ UNCHANGED <<memPortfolio, executed, serviceVars, job, queues>>

\* service lines 546-553 on the loaded portfolio
GetRiskMetrics(currentPrices) ==
    /\ lastCall' = [kind |-> "risk", prices |-> currentPrices,
                    metrics |-> CalculateRiskMetrics(memPortfolio, currentPrices)]
    /\ UNCHANGED <<memPortfolio, executed, serviceVars, job, queues>>

\* service lines 536-543 on the loaded portfolio
GetPortfolioAllocation(currentPrices) ==
    /\ lastCall' = [kind |-> "allocation", prices |-> currentPrices,
                    allocations |-> CalculatePortfolioAllocation(memPortfolio, currentPrices)]
    /\ UNCHANGED <<memPortfolio, executed, serviceVars, job, queues>>

(***************************************************************************)
(* Specifications.                                                         *)
(***************************************************************************)
DomainIdle ==
    /\ memPortfolio = NewPortfolio(InitialPortfolioID, TestUserID, InitialCash)
    /\ lastCall = NoCall
    /\ executed = <<>>

Init == InitService /\ DomainIdle /\ JobIdle

Next ==
    \E r \in Requests :
        \/ \E portfolioID \in RequestPortfolioIDs, order \in RequestOrders :
                Begin(r, portfolioID, order)
        \/ ExecuteTrade(r)

\* concurrent ExecuteTrade requests against the database
Spec == Init /\ [][Next]_vars

\* the service at rest: no request is ever started
ServiceIdle ==
    /\ db = [portfolios |-> {}, positions |-> {}, trades |-> {}]
    /\ ids = [position |-> 0, trade |-> 0]
    /\ req = [r \in Requests |-> IdleRequest]
    /\ started = 0

InitRules == InitDomain /\ ServiceIdle /\ JobIdle

NextRules ==
    \E trade \in Orders, price \in Prices :
        \/ DomainReject(trade, price)
        \/ DomainExecute(trade, price)

NextLedger ==
    \/ Next
    \/ \E currentPrices \in MarketQuotes : RefreshLoad(InitialPortfolioID, currentPrices)
    \/ RefreshSave
    \/ \E cash \in DepositedCash : UpdatePortfolio(InitialPortfolioID, cash)
    \/ DeletePortfolio(InitialPortfolioID)

\* one user owns two portfolios: portfolios has no constraint on user_id
\* (Makefile lines 123-138); no position and no trade exists yet
SecondPortfolioID == InitialPortfolioID + 1

InitTwoPortfolios ==
    /\ db = [portfolios |-> {PortfolioRow(NewPortfolio(InitialPortfolioID, TestUserID, InitialCash)),
                             PortfolioRow(NewPortfolio(SecondPortfolioID, TestUserID, InitialCash))},
             positions |-> {}, trades |-> {}]
    /\ ids = [position |-> 0, trade |-> 0]
    /\ req = [r \in Requests |-> IdleRequest]
    /\ started = 0
    /\ DomainIdle /\ JobIdle

\* ExecuteTrade requests on the two portfolios of one user
SpecTwoPortfolios == InitTwoPortfolios /\ [][Next]_vars

\* the portfolios DeletePortfolio is called for: the two of the user and
\* one that does not exist
DeletedPortfolioIDs == {InitialPortfolioID, SecondPortfolioID, SecondPortfolioID + 1}

\* two portfolios of one user, with or without a position that
\* repo.CreatePosition stored for the user
InitDeletePortfolio ==
    /\ \E seeded \in SeededPositions :
        /\ db = [portfolios |-> {PortfolioRow(NewPortfolio(InitialPortfolioID, TestUserID, InitialCash)),
                                 PortfolioRow(NewPortfolio(SecondPortfolioID, TestUserID, InitialCash))},
                 positions |-> seeded, trades |-> {}]
        /\ ids = [position |-> Cardinality(seeded), trade |-> 0]
    /\ req = [r \in Requests |-> IdleRequest]
    /\ started = 0
    /\ DomainIdle /\ JobIdle

NextDeletePortfolio ==
    \/ Next
    \/ \E portfolioID \in DeletedPortfolioIDs : DeletePortfolio(portfolioID)

\* ExecuteTrade requests and DeletePortfolio calls on the portfolios of one user
SpecDeletePortfolio == InitDeletePortfolio /\ [][NextDeletePortfolio]_vars

InitScenario ==
    /\ \E cash \in ScenarioCash :
        memPortfolio = NewPortfolio(InitialPortfolioID, TestUserID, cash)
    /\ lastCall = NoCall
    /\ executed = <<>>
    /\ ServiceIdle /\ JobIdle

NextScenario ==
    \E trade \in ScenarioOrders, price \in ScenarioPrices :
        \/ DomainReject(trade, price)
        \/ ScenarioExecute(trade, price)

\* the execution prices of the orders that precede a market-data update
MarketDataPrices == {Dec(150), Dec(160)}

NextMarketData ==
    \/ \E trade \in ScenarioOrders, price \in MarketDataPrices : ScenarioExecute(trade, price)
    \/ \E currentPrices \in ScenarioQuotes : ScenarioRefresh(currentPrices)

\* the rule engine and the market-data update on one portfolio
SpecMarketData == InitScenario /\ [][NextMarketData]_vars

\* the orders executed without validation: what is bought is a multiple of
\* what is sold, so that no sale takes more than is held (that would leave
\* a negative quantity, and a buy back to 0 an entry price of x / 0.0)
DirectOrders == {trade \in ScenarioOrders : trade.side = "sell" => trade.quantity = 10}

NextExecuteOrder ==
    \E trade \in DirectOrders, price \in ScenarioPrices : ExecuteDirectly(trade, price)

\* ExecuteTradeOrder called on orders that were not validated
SpecExecuteOrder == InitScenario /\ [][NextExecuteOrder]_vars

InitQueue == DomainIdle /\ ServiceIdle /\ JobIdle

NextQueue ==
    \/ EnqueueAIAnalysis
    \/ EnqueueMarketDataUpdate
    \/ \E queue \in Queues : Run(queue)
    \/ \E j \in queues.asleep : Reenqueue(j)
    \/ Close
    \/ RedisDown
    \/ RedisUp

\* producers, workers and the back-off goroutines of the job queue
SpecQueue == InitQueue /\ [][NextQueue]_vars

InitAnalytics ==
    /\ memPortfolio \in AnalyticsPortfolios
    /\ lastCall = NoCall
    /\ executed = <<>>
    /\ ServiceIdle /\ JobIdle

NextAnalytics ==
    \E currentPrices \in AnalyticsQuotes :
        \/ GetPortfolioAllocation(currentPrices)
        \/ GetRiskMetrics(currentPrices)
        \/ \E targetAllocations \in TargetAllocations :
                GetRebalanceRecommendations(targetAllocations, currentPrices)

\* the analytics on a loaded portfolio
SpecAnalytics == InitAnalytics /\ [][NextAnalytics]_vars

\* the rule engine on a portfolio with cash 100000
SpecScenario == InitScenario /\ [][NextScenario]_vars

NextRefresh ==
    \/ Next
    \/ \E currentPrices \in MarketQuotes : RefreshLoad(InitialPortfolioID, currentPrices)
    \/ RefreshSave

\* ExecuteTrade requests and market-data refreshes of one portfolio
SpecRefresh == Init /\ [][NextRefresh]_vars

NextCancel ==
    \/ Next
    \/ \E r \in Requests : Cancel(r)

\* ExecuteTrade requests whose context may be cancelled at any step
SpecCancel == Init /\ [][NextCancel]_vars

\* ExecuteTrade requests next to the other calls that write
SpecLedger == Init /\ [][NextLedger]_vars

\* the rule engine alone, on an in-memory portfolio
SpecRules == InitRules /\ [][NextRules]_vars

(***************************************************************************)
(* Properties of ExecuteTrade (specification Spec).                        *)
(***************************************************************************)
ValidationErrors ==
    {"InvalidQuantity", "InvalidPrice", "InvalidSide", "InsufficientFunds",
     "InsufficientShares"}

\* the request left validation and in-memory execution behind it
Executed(r) == req[r].portfolio # <<>>

\* C1: a step of a request inside its unit of work that is not the
\* successful commit (a statement, or a failure of a statement or of the
\* commit followed by the return of the error) leaves the committed rows as
\* they were: no trade row, no position row and no portfolio cash of the
\* failed order becomes durable.
C1_FailedUnitOfWorkLeavesNoTrace ==
    [][\A r \in Requests :
        (/\ req[r].txOpen
         /\ req'[r] # req[r]
         /\ ~(req'[r].pc = "done" /\ req'[r].err = "none"))
        => db' = db]_vars

\* a request failed after its position write and its trade write
C1_Witness ==
    \E r \in Requests :
        /\ req[r].pc = "done"
        /\ req[r].err = "PersistenceFailure"
        /\ Len(req[r].writes) >= 2
        /\ db.trades = {}

\* C2: when ValidateTradeOrder rejects the order of a request, the request
\* returns that error, opens no transaction, issues no statement, returns
\* no position and leaves the committed rows unchanged.
C2_ValidationFailureWritesNothing ==
    [][\A r \in Requests :
        (/\ req[r].pc = "validate"
         /\ req'[r] # req[r]
         /\ ValidateTradeOrder(req[r].trade, req[r].loaded[1], req[r].price) # "none")
        => /\ req'[r].pc = "done"
           /\ req'[r].err = ValidateTradeOrder(req[r].trade, req[r].loaded[1], req[r].price)
           /\ req'[r].writes = <<>>
           /\ ~req'[r].txOpen
           /\ req'[r].result = <<>>
           /\ db' = db]_vars

\* a request returned InsufficientShares and one returned InvalidPrice
C2_Witness ==
    /\ \E r \in Requests :
        /\ req[r].pc = "done" /\ req[r].err = "InsufficientShares"
        /\ req[r].writes = <<>>
    /\ \E r \in Requests :
        /\ req[r].pc = "done" /\ req[r].err = "InvalidPrice"

\* the change of cash a committed trade row stands for
CashEffect(t) ==
    LET notional == RMul(Dec(t.quantity), t.price)
    IN  IF t.side = "buy" THEN RNeg(RAdd(notional, t.fees))
        ELSE RSub(notional, t.fees)

RECURSIVE SumCashEffects(_)
SumCashEffects(trades) ==
    IF trades = {} THEN Zero
    ELSE LET t == CHOOSE x \in trades : TRUE
         IN  RAdd(CashEffect(t), SumCashEffects(trades \ {t}))

\* C3: the committed cash of the portfolio is the opening cash plus the
\* cash effect of every committed trade, as it is after running the
\* committed orders one after the other in any order; and no two requests
\* that both committed validated against the same loaded portfolio.
C3_CommittedOrdersSerialized ==
    /\ \A p \in db.portfolios :
        p.id = InitialPortfolioID
            => p.cash = RAdd(InitialCash, SumCashEffects(db.trades))
    /\ \A r1, r2 \in Requests :
        (/\ r1 # r2
         /\ req[r1].pc = "done" /\ req[r1].err = "none"
         /\ req[r2].pc = "done" /\ req[r2].err = "none")
        => req[r1].loaded # req[r2].loaded

\* C31: the committed cash of the portfolio is the opening cash, less
\* quantity * price + fee of every committed buy trade, plus
\* quantity * price - fee of every committed sell trade.
C31_CashReconstructibleFromLedger ==
    \A p \in db.portfolios :
        LET ledger == {t \in db.trades : t.portfolio_id = p.id}
            buys == {t \in ledger : t.side = "buy"}
            sells == {t \in ledger : t.side = "sell"}
        IN  p.cash = RAdd(RAdd(InitialCash, SumCashEffects(buys)), SumCashEffects(sells))

RECURSIVE SumQuantities(_)
SumQuantities(rows) ==
    IF rows = {} THEN 0
    ELSE LET x == CHOOSE y \in rows : TRUE
         IN  x.quantity + SumQuantities(rows \ {x})

\* the quantity stored for a symbol: 0 when there is no row
StoredQuantity(d, symbol) ==
    SumQuantities(PositionRowsByUserAndSymbol(d, TestUserID, symbol))

\* the committed buys less the committed sells of a symbol
LedgerQuantity(d, symbol) ==
    SumQuantities({t \in d.trades : t.symbol = symbol /\ t.side = "buy"})
        - SumQuantities({t \in d.trades : t.symbol = symbol /\ t.side = "sell"})

\* C32: the quantity stored for a symbol follows the ledger: every step
\* changes it by the quantity of the buys less the quantity of the sells
\* that the step commits, so that from no position and no trade the stored
\* quantity is the sum of the committed buys less the sum of the committed
\* sells.
C32_QuantityReconstructibleFromLedger ==
    [][\A symbol \in Symbols :
        StoredQuantity(db', symbol) - StoredQuantity(db, symbol)
            = LedgerQuantity(db', symbol) - LedgerQuantity(db, symbol)]_vars

\* C4: the committed rows change only when one request commits, and then
\* the position statement, the trade row and the portfolio update of that
\* request become visible in the same step; no other step shows any of them.
C4_UnitOfWorkVisibleAtOnce ==
    [][db' # db =>
        \E r \in Requests :
            /\ req[r].pc = "commit" /\ req'[r].pc = "done"
            /\ Len(req[r].writes) = 3
            /\ req[r].writes[1].op \in {"createPosition", "updatePosition", "deletePosition"}
            /\ req[r].writes[2].op = "createTrade"
            /\ req[r].writes[3].op = "updatePortfolio"
            /\ db' = ApplyWrites(db, req[r].writes)
            /\ db'.trades # db.trades]_vars

\* a request holds an uncommitted position and trade while the committed
\* rows already show the complete order of another request
C4_Witness ==
    \E r1, r2 \in Requests :
        /\ req[r1].txOpen /\ Len(req[r1].writes) = 2
        /\ req[r2].pc = "done" /\ req[r2].err = "none"
        /\ \E t \in db.trades : t.id = req[r2].trade.id
        /\ \A t \in db.trades : t.id # req[r1].trade.id

\* the order of the request is a sell that closed the position in memory
FullClose(r) ==
    /\ Executed(r)
    /\ req[r].trade.side = "sell"
    /\ req[r].position = <<>>

\* C9: a valid sell of the whole position that met no database outage went
\* through: the request succeeded and no position row of that user and
\* symbol is left in the committed rows.
C9_FullCloseRemovesDurableRow ==
    \A r \in Requests :
        (req[r].pc = "done" /\ FullClose(r) /\ req[r].err # "PersistenceFailure")
        => /\ req[r].err = "none"
           /\ PositionRowsByUserAndSymbol(db, req[r].trade.user_id, req[r].trade.symbol) = {}

(***************************************************************************)
(* Properties of the rule engine (specification SpecRules).                *)
(***************************************************************************)
\* the last call validated and executed an order of this side
ExecutedSide(side) == lastCall.kind = "executed" /\ lastCall.trade.side = side

Notional == RMul(Dec(lastCall.trade.quantity), lastCall.price)

\* max(1.00, 0.001 * quantity * executionPrice)
ExpectedFee ==
    LET proportional == RMul(<<1, 1000>>, Notional)
    IN  IF RLt(proportional, Dec(1)) THEN Dec(1) ELSE proportional

\* the positions whose symbol is not the traded one, in slice order
OtherPositions(positions, symbol) ==
    SelectSeq(positions, LAMBDA p : p.symbol # symbol)

\* the positions of the traded symbol, in slice order
SymbolPositions(positions, symbol) ==
    SelectSeq(positions, LAMBDA p : p.symbol = symbol)

\* C5: the cash of the in-memory portfolio is never negative after orders
\* that were each validated and then executed on the same snapshot.
C5_CashNeverNegative == RLe(Zero, memPortfolio.cash)

\* C6: after a validated buy, cash is the cash before minus the notional
\* minus the fee max(1.00, 0.001 * notional), the trade carries that fee,
\* and the positions of every other symbol are what they were.
C6_BuyDebitsNotionalAndFee ==
    ExecutedSide("buy") =>
        /\ memPortfolio.cash = RSub(RSub(lastCall.before.cash, Notional), ExpectedFee)
        /\ lastCall.trade.fees = ExpectedFee
        /\ OtherPositions(memPortfolio.positions, lastCall.trade.symbol)
            = OtherPositions(lastCall.before.positions, lastCall.trade.symbol)

\* a buy over 1000.00 (fee above the minimum) and a buy into a held symbol
\* next to a position of another symbol have both been executed
C6_Witness ==
    /\ ExecutedSide("buy")
    /\ RLt(Dec(1), ExpectedFee)
    /\ Len(lastCall.before.positions) = 1
    /\ lastCall.before.positions[1].symbol # lastCall.trade.symbol

RECURSIVE SumBuyNotionals(_, _)
SumBuyNotionals(trades, symbol) ==
    IF trades = <<>> THEN Zero
    ELSE LET t == Head(trades)
         IN  RAdd(IF t.symbol = symbol /\ t.side = "buy"
                  THEN RMul(Dec(t.quantity), t.price) ELSE Zero,
                  SumBuyNotionals(Tail(trades), symbol))

\* C7: a validated buy into a held position gives quantity oldQty + tradeQty
\* and entry price (oldEntry * oldQty + tradeQty * price) / (oldQty +
\* tradeQty); a first buy of a symbol creates a position with the traded
\* quantity at the execution price; and while no sell has been executed,
\* entry price times quantity of every position is the sum of the
\* notionals of the buys of its symbol.
C7_BuyWeightedAverageEntry ==
    /\ ExecutedSide("buy") =>
        LET old == SymbolPositions(lastCall.before.positions, lastCall.trade.symbol)
            new == SymbolPositions(memPortfolio.positions, lastCall.trade.symbol)
        IN  /\ Len(new) = 1
            /\ lastCall.position = <<new[1]>>
            /\ IF old = <<>>
               THEN /\ new[1].quantity = lastCall.trade.quantity
                    /\ new[1].entry_price = lastCall.price
               ELSE /\ new[1].quantity = old[1].quantity + lastCall.trade.quantity
                    /\ new[1].entry_price =
                        RDiv(RAdd(RMul(old[1].entry_price, Dec(old[1].quantity)), Notional),
                             Dec(old[1].quantity + lastCall.trade.quantity))
    /\ (\A i \in 1..Len(executed) : executed[i].side = "buy") =>
        \A i \in 1..Len(memPortfolio.positions) :
            RMul(memPortfolio.positions[i].entry_price,
                 Dec(memPortfolio.positions[i].quantity))
                = SumBuyNotionals(executed, memPortfolio.positions[i].symbol)

\* a buy into a held position at another price and in another quantity
C7_Witness ==
    /\ ExecutedSide("buy")
    /\ \E i \in 1..Len(lastCall.before.positions) :
        /\ lastCall.before.positions[i].symbol = lastCall.trade.symbol
        /\ lastCall.before.positions[i].entry_price # lastCall.price
        /\ lastCall.before.positions[i].quantity # lastCall.trade.quantity

\* C8: a validated sell of less than the held quantity leaves the entry
\* price of the position unchanged, lowers its quantity by exactly the sold
\* quantity, and returns that position.
C8_PartialSellKeepsEntryPrice ==
    ExecutedSide("sell") =>
        LET old == SymbolPositions(lastCall.before.positions, lastCall.trade.symbol)
            new == SymbolPositions(memPortfolio.positions, lastCall.trade.symbol)
        IN  lastCall.trade.quantity < old[1].quantity =>
                /\ Len(new) = 1
                /\ new[1].entry_price = old[1].entry_price
                /\ new[1].quantity = old[1].quantity - lastCall.trade.quantity
                /\ lastCall.position = <<new[1]>>

\* a partial sell at a price that is not the entry price
C8_Witness ==
    /\ ExecutedSide("sell")
    /\ \E i \in 1..Len(lastCall.before.positions) :
        /\ lastCall.before.positions[i].symbol = lastCall.trade.symbol
        /\ lastCall.trade.quantity < lastCall.before.positions[i].quantity
        /\ lastCall.before.positions[i].entry_price # lastCall.price

\* C10 as stated: every validated sell leaves cash strictly higher
C10_SellStrictlyIncreasesCash ==
    ExecutedSide("sell") => RLt(lastCall.before.cash, memPortfolio.cash)

\* C10: a validated sell changes cash by exactly notional - fee with fee =
\* max(1.00, 0.001 * notional); cash is strictly higher afterwards exactly
\* when the notional exceeds 1.00.
C10_SellCreditsNotionalLessFee ==
    ExecutedSide("sell") =>
        /\ memPortfolio.cash = RAdd(lastCall.before.cash, RSub(Notional, ExpectedFee))
        /\ lastCall.trade.fees = ExpectedFee
        /\ RLt(lastCall.before.cash, memPortfolio.cash) <=> RLt(Dec(1), Notional)

\* a validated sell whose notional is below the 1.00 minimum fee
C10_Witness ==
    /\ ExecutedSide("sell")
    /\ RLt(Notional, Dec(1))
    /\ RLt(memPortfolio.cash, lastCall.before.cash)


FeeFor(notional) ==
    LET proportional == RMul(<<1, 1000>>, notional)
    IN  IF RLt(proportional, Dec(1)) THEN Dec(1) ELSE proportional

\* request r returns in this step
Returns(r) == req[r].pc # "done" /\ req'[r].pc = "done"

\* the trade row t is what the order of request r stands for, with the
\* price and the fee as given
TradeOfOrder(t, r, price, fee) ==
    /\ t.status = "filled"
    /\ t.symbol = req[r].trade.symbol
    /\ t.side = req[r].trade.side
    /\ t.quantity = req[r].trade.quantity
    /\ t.price = price
    /\ t.fees = fee
    /\ req[r].writes[1].op \in {"createPosition", "updatePosition", "deletePosition"}
    /\ t.position_id = req[r].writes[1].row.id

ClosesReferencedPosition(r) ==
    /\ FullClose(r)
    /\ req[r].existing # <<>>
    /\ \E t \in db.trades :
        /\ t.position_id = req[r].existing[1].id
        /\ t.id # req[r].trade.id

\* C14: a full-close sell of a position that earlier trades reference, with
\* no database outage, commits: the request succeeds, the position row is
\* gone, and the sell trade is in the ledger carrying the old position id.
C14_FullCloseOfReferencedPositionCommits ==
    \A r \in Requests :
        (req[r].pc = "done" /\ ClosesReferencedPosition(r)
            /\ req[r].err # "PersistenceFailure")
        => /\ req[r].err = "none"
           /\ \A p \in db.positions : p.id # req[r].existing[1].id
           /\ \E t \in db.trades :
                /\ t.side = "sell"
                /\ t.position_id = req[r].existing[1].id

\* C22: reading a portfolio by an id that has no row fails, with not found
\* unless the database is out, and not found is returned for no other
\* reason; reading a position by an id that has no row is not found;
\* looking up the position of a user and symbol that has no row returns no
\* position and no error, and is never not found; none of the reads
\* changes a committed row.
C22_MissingIdIsNotFoundMissingSymbolIsAbsent ==
    [][/\ \A r \in Requests :
            (req[r].pc = "getPortfolio" /\ req'[r] # req[r]) =>
                /\ db' = db
                /\ PortfolioRowsByID(db, req[r].portfolioID) = {} =>
                    /\ req'[r].pc = "done"
                    /\ req'[r].err \in {"NotFound", "PersistenceFailure"}
                /\ req'[r].err = "NotFound" =>
                    PortfolioRowsByID(db, req[r].portfolioID) = {}
       /\ \A r \in Requests :
            (req[r].pc = "checkExisting" /\ req'[r] # req[r]) =>
                /\ db' = db
                /\ req'[r].err \in {"none", "PersistenceFailure"}
                /\ (req'[r].err = "none" /\ PositionRowsByUserAndSymbol(
                        db, req[r].trade.user_id, req[r].trade.symbol) = {}) =>
                    /\ req'[r].existing = <<>>
                    /\ req'[r].pc # "done"
       /\ \A positionID \in 1..(ids.position + 1) :
            (\A p \in db.positions : p.id # positionID) =>
                /\ GetPositionByID(db, positionID).err = "NotFound"
                /\ GetPositionByID(db, positionID).position = <<>>]_vars

\* one request was turned down for a portfolio id without a row, the other
\* found no position of its user and symbol and went on to write one
C22_Witness ==
    \E r1, r2 \in Requests :
        /\ req[r1].pc = "done" /\ req[r1].err = "NotFound"
        /\ req[r2].pc = "writePosition"
        /\ req[r2].existing = <<>> /\ req[r2].err = "none"
        /\ PositionRowsByUserAndSymbol(db, req[r2].trade.user_id, req[r2].trade.symbol) = {}

\* the position a returning request hands back is the row now stored under
\* its id for the symbol of the order, with the entry price as given
ReturnsStoredPosition(r, entryPrice) ==
    /\ req'[r].result # <<>>
    /\ req'[r].result[1].id # 0
    /\ \E p \in db'.positions :
        /\ p.id = req'[r].result[1].id
        /\ p.symbol = req[r].trade.symbol
        /\ p.quantity = req'[r].result[1].quantity
        /\ p.entry_price = entryPrice

RereadsComputed(r, cash, entryPrice) ==
    /\ \A p \in db'.portfolios : p.id = req[r].portfolioID => p.cash = cash
    /\ req[r].position # <<>> =>
        \E p \in db'.positions :
            /\ p.id = req[r].position[1].id
            /\ p.symbol = req[r].trade.symbol
            /\ p.quantity = req[r].position[1].quantity
            /\ p.entry_price = entryPrice
    /\ {p \in db'.positions : p.symbol # req[r].trade.symbol}
        = {p \in db.positions : p.symbol # req[r].trade.symbol}

\* request b bought q1 of a symbol into a portfolio without positions, and
\* request s, which loaded the portfolio as b left it, sold q2 < q1 of it;
\* these are the only two calls of the service
BoughtThenSold(b, s) ==
    /\ b # s
    /\ started = 2
    /\ req[b].pc = "done" /\ req[b].err = "none" /\ req[b].trade.side = "buy"
    /\ req[s].pc = "done" /\ req[s].err = "none" /\ req[s].trade.side = "sell"
    /\ req[b].portfolioID = req[s].portfolioID
    /\ req[b].trade.symbol = req[s].trade.symbol
    /\ req[s].trade.quantity < req[b].trade.quantity
    /\ req[b].loaded[1].positions = <<>>
    /\ req[b].loaded[1].cash = InitialCash
    /\ req[s].loaded[1].cash = RoundTo(req[b].portfolio[1].cash, Cents)
    /\ Len(req[s].loaded[1].positions) = 1

\* one position of q1 - q2 in the symbol and two trades in the history
LeavesRemainder(b, s) ==
    /\ \E p \in db.positions :
        /\ PositionRowsByUserAndSymbol(db, TestUserID, req[b].trade.symbol) = {p}
        /\ p.quantity = req[b].trade.quantity - req[s].trade.quantity
    /\ Cardinality(db.trades) = 2

CashOf(portfolioID) == (CHOOSE p \in db.portfolios : p.id = portfolioID).cash

C34_OnePositionPerUserAndSymbol ==
    \A p, q \in db.positions :
        (p.user_id = q.user_id /\ p.symbol = q.symbol) => p.id = q.id

(***************************************************************************)
(* Cancellation of ExecuteTrade requests (specification SpecCancel).       *)
(***************************************************************************)
\* C19: when the context of a request is cancelled at any step before the
\* commit, the request returns an error, its transaction is rolled back and
\* the committed trade, position and portfolio rows are what they were,
\* with no trade of the request among them, then and ever after; when it is
\* cancelled after the commit, the rows the order wrote stay and so does
\* the result of the request.
C19_CancelBeforeCommitRollsBack ==
    [][\A r \in Requests :
        /\ (req[r].cancelled = "no" /\ req'[r].cancelled = "running") =>
            /\ db' = db
            /\ req'[r].pc = "done" /\ req'[r].err # "none"
            /\ ~req'[r].txOpen
        /\ req'[r].cancelled = "running" =>
            /\ req'[r].err # "none"
            /\ \A t \in db'.trades : t.id # req'[r].trade.id
        /\ (req[r].cancelled = "no" /\ req'[r].cancelled = "returned") =>
            /\ db' = db
            /\ req'[r].err = req[r].err
            /\ req'[r].result = req[r].result
            /\ req[r].err = "none" =>
                \E t \in db'.trades : t.id = req[r].trade.id]_vars

\* one request was cancelled after its position, trade and portfolio
\* statements and before the commit; the other was cancelled after its
\* commit and its trade is in the ledger
C19_Witness ==
    \E r1, r2 \in Requests :
        /\ req[r1].cancelled = "running"
        /\ Len(req[r1].writes) = 3
        /\ req[r2].cancelled = "returned"
        /\ req[r2].err = "none"
        /\ \E t \in db.trades : t.id = req[r2].trade.id
        /\ \A t \in db.trades : t.id # req[r1].trade.id

(***************************************************************************)
(* Two portfolios of one user (specification SpecTwoPortfolios).           *)
(***************************************************************************)
\* the position rows request r was handed with its portfolio
LoadedRows(r) ==
    IF req[r].loaded = <<>> THEN {}
    ELSE {p \in db.positions :
            \E i \in 1..Len(req[r].loaded[1].positions) :
                req[r].loaded[1].positions[i].id = p.id}

\* C20: a position belongs to the one portfolio it was bought through: the
\* positions loaded for a request are rows of the portfolio of the request,
\* and a committed trade, buy or sell, references a position row of the
\* portfolio the trade was made through.
C20_PositionOfOnePortfolio ==
    /\ \A r \in Requests : \A p \in LoadedRows(r) :
        p.portfolio_id = req[r].portfolioID
    /\ \A t \in db.trades : \A p \in db.positions :
        t.position_id = p.id => t.portfolio_id = p.portfolio_id

(***************************************************************************)
(* Deletion of a portfolio (specification SpecDeletePortfolio).            *)
(***************************************************************************)
\* this step is a DeletePortfolio call
DeleteCalled == job'.deleted # job.deleted

\* C21: a DeletePortfolio call for a portfolio that exists removes the
\* portfolio row and its positions and leaves the row, the cash and the
\* positions of every other portfolio as they were, those of the same user
\* included; a call for a portfolio that does not exist returns not found
\* and changes no row.
C21_DeleteRemovesOwnPositionsOnly ==
    [][DeleteCalled =>
        LET id == job'.deleted[1].id
            err == job'.deleted[1].err
        IN  IF PortfolioRowsByID(db, id) = {}
            THEN err = "NotFound" /\ db' = db
            ELSE /\ err = "none"
                 /\ PortfolioRowsByID(db', id) = {}
                 /\ \A p \in db'.positions : p.portfolio_id # id
                 /\ \A other \in db.portfolios : other.id # id =>
                        /\ other \in db'.portfolios
                        /\ GetPositionsByPortfolioID(db', other.id)
                            = GetPositionsByPortfolioID(db, other.id)]_vars

(***************************************************************************)
(* Properties of order validation (specification SpecRules): every order   *)
(* and price is put to ValidateTradeOrder on every portfolio the harness   *)
(* reaches.                                                                *)
(***************************************************************************)
\* quantity * price + max(1.00, 0.001 * quantity * price)
TotalCost(trade, price) ==
    RAdd(RMul(Dec(trade.quantity), price),
         FeeFor(RMul(Dec(trade.quantity), price)))

\* the shares of the symbol held in the portfolio, 0 with no position
Held(portfolio, symbol) ==
    IF \E i \in 1..Len(portfolio.positions) : portfolio.positions[i].symbol = symbol
    THEN LET i == CHOOSE i \in 1..Len(portfolio.positions) :
                    /\ portfolio.positions[i].symbol = symbol
                    /\ \A j \in 1..(i - 1) : portfolio.positions[j].symbol # symbol
         IN  portfolio.positions[i].quantity
    ELSE 0

\* C15: a buy with positive quantity and price is rejected with
\* InsufficientFunds exactly when cash < quantity * price + fee, and is
\* accepted otherwise; a buy whose total cost is all the cash is accepted
\* and, executed, leaves cash 0.
C15_BuyRejectedIffCashBelowTotalCost ==
    /\ \A trade \in Orders, price \in Prices :
        (trade.side = "buy" /\ trade.quantity > 0 /\ RLt(Zero, price)) =>
            LET err == ValidateTradeOrder(trade, memPortfolio, price)
            IN  /\ err = "InsufficientFunds"
                    <=> RLt(memPortfolio.cash, TotalCost(trade, price))
                /\ err = "none"
                    <=> ~RLt(memPortfolio.cash, TotalCost(trade, price))
                /\ memPortfolio.cash = TotalCost(trade, price) =>
                    ExecuteTradeOrder(trade, memPortfolio, price).portfolio.cash = Zero
    /\ (ExecutedSide("buy") /\ lastCall.before.cash = TotalCost(lastCall.trade, lastCall.price))
        => memPortfolio.cash = Zero

\* a buy whose total cost was all the cash went through and left cash 0, and
\* the next buy finds too little cash
C15_Witness ==
    /\ ExecutedSide("buy")
    /\ lastCall.before.cash = TotalCost(lastCall.trade, lastCall.price)
    /\ RLt(Zero, lastCall.before.cash)
    /\ memPortfolio.cash = Zero
    /\ \E trade \in Orders, price \in Prices :
        ValidateTradeOrder(trade, memPortfolio, price) = "InsufficientFunds"

\* C16: a sell with positive quantity and price is rejected with
\* InsufficientShares exactly when the portfolio holds no position of the
\* symbol or fewer shares than the order sells, the same error in both
\* cases, and is accepted otherwise; a sell of all the shares held is
\* accepted.
C16_SellRejectedIffSharesBelowQuantity ==
    \A trade \in Orders, price \in Prices :
        (trade.side = "sell" /\ trade.quantity > 0 /\ RLt(Zero, price)) =>
            LET err == ValidateTradeOrder(trade, memPortfolio, price)
            IN  /\ err = "InsufficientShares"
                    <=> Held(memPortfolio, trade.symbol) < trade.quantity
                /\ err = "none"
                    <=> Held(memPortfolio, trade.symbol) >= trade.quantity

\* a sell of all the shares held went through; one symbol is now not held
\* and of the other fewer shares are held than an order may sell
C16_Witness ==
    /\ ExecutedSide("sell")
    /\ Held(lastCall.before, lastCall.trade.symbol) = lastCall.trade.quantity
    /\ \E s \in Symbols : Held(memPortfolio, s) = 0
    /\ \E trade \in Orders, price \in Prices :
        /\ Held(memPortfolio, trade.symbol) = 0
        /\ ValidateTradeOrder(trade, memPortfolio, price) = "InsufficientShares"

\* C17: the quantity is checked first, then the price, then the side: an
\* order with quantity <= 0 gets InvalidQuantity whatever its price and
\* side, one with a positive quantity and price <= 0 gets InvalidPrice
\* whatever its side, one with both positive and a side other than buy and
\* sell gets InvalidSide; the funds and shares errors come only after these
\* checks, and every order gets one outcome.
C17_QuantityThenPriceThenSide ==
    \A trade \in Orders, price \in Prices :
        LET err == ValidateTradeOrder(trade, memPortfolio, price)
        IN  /\ err \in {"none", "InvalidQuantity", "InvalidPrice", "InvalidSide",
                        "InsufficientFunds", "InsufficientShares"}
            /\ err = "InvalidQuantity" <=> trade.quantity <= 0
            /\ err = "InvalidPrice" <=> (trade.quantity > 0 /\ RLe(price, Zero))
            /\ err = "InvalidSide" <=>
                (trade.quantity > 0 /\ RLt(Zero, price) /\ trade.side \notin {"buy", "sell"})
            /\ err = "InsufficientFunds" => trade.side = "buy"
            /\ err = "InsufficientShares" => trade.side = "sell"

\* an order was rejected for its quantity at a portfolio where an order
\* with quantity 0, price 0 and a side that is neither buy nor sell exists
C17_Witness ==
    /\ lastCall.kind = "rejected"
    /\ lastCall.err = "InvalidQuantity"
    /\ \E trade \in Orders, price \in Prices :
        /\ trade.quantity <= 0 /\ RLe(price, Zero) /\ trade.side \notin {"buy", "sell"}
        /\ ValidateTradeOrder(trade, memPortfolio, price) = "InvalidQuantity"

\* C18: ValidateTradeOrder changes nothing: after the call, accepted or
\* rejected, the trade has the price, fee and status (and every other
\* field) it had before, and the portfolio has the cash and the positions
\* it had before; after a rejected order the portfolio of the harness is
\* the one from before the call and the trade is still unpriced, without a
\* fee and pending.
C18_ValidationChangesNothing ==
    /\ \A trade \in Orders, price \in Prices :
        LET call == ValidateTradeOrderCall(trade, memPortfolio, price)
        IN  /\ call.trade = trade
            /\ call.portfolio.cash = memPortfolio.cash
            /\ call.portfolio.positions = memPortfolio.positions
            /\ call.portfolio = memPortfolio
    /\ lastCall.kind = "rejected" =>
        /\ memPortfolio = lastCall.before
        /\ lastCall.trade.price = Zero
        /\ lastCall.trade.fees = Zero
        /\ lastCall.trade.status = "pending"

\* an order was rejected for want of cash by a portfolio that holds a
\* position, and an order was rejected for want of shares
C18_Witness ==
    /\ lastCall.kind = "rejected"
    /\ lastCall.err = "InsufficientFunds"
    /\ Len(memPortfolio.positions) > 0
    /\ memPortfolio = lastCall.before
    /\ \E trade \in Orders, price \in Prices :
        ValidateTradeOrderCall(trade, memPortfolio, price).err = "InsufficientShares"

(***************************************************************************)
(* The rule engine on a portfolio with cash 100000 (SpecScenario).         *)
(***************************************************************************)
\* the k-th executed trade is this order at this price
ExecutedIs(k, side, quantity, price) ==
    /\ Len(executed) >= k
    /\ executed[k].symbol = "AAPL"
    /\ executed[k].side = side
    /\ executed[k].quantity = quantity
    /\ executed[k].price = price

ScenarioA == ExecutedIs(1, "buy", 10, Dec(150))
ScenarioB == ScenarioA /\ ExecutedIs(2, "buy", 10, Dec(160))
ScenarioC == ScenarioB /\ ExecutedIs(3, "sell", 20, Dec(155))

\* the portfolio holds AAPL and nothing else, with this quantity and entry price
HoldsOnly(quantity, entryPrice) ==
    /\ Len(memPortfolio.positions) = 1
    /\ memPortfolio.positions[1].symbol = "AAPL"
    /\ memPortfolio.positions[1].quantity = quantity
    /\ memPortfolio.positions[1].entry_price = entryPrice

\* C24: from cash 100000 and no positions (with cash 1001 the first order is
\* turned down), buy AAPL 10 at 150, buy AAPL 10
\* at 160 and sell AAPL 20 at 155 each pass validation, and leave in turn
\* cash 98498.5 with 10 shares entered at 150, cash 96896.9 with 20 shares
\* entered at 155, and cash 99993.8 with no position; the fees are 1.5, 1.6
\* and 3.1.
C24_ScenarioABC ==
    /\ (Len(executed) = 0 /\ memPortfolio.cash = Dec(100000)) =>
        ValidateTradeOrder(NewTrade(TestUserID, "AAPL", "buy", 10), memPortfolio, Dec(150)) = "none"
    /\ (ScenarioA /\ Len(executed) = 1) =>
        /\ memPortfolio.cash = <<196997, 2>>
        /\ HoldsOnly(10, Dec(150))
        /\ executed[1].fees = <<3, 2>>
        /\ ValidateTradeOrder(NewTrade(TestUserID, "AAPL", "buy", 10), memPortfolio, Dec(160)) = "none"
    /\ (ScenarioB /\ Len(executed) = 2) =>
        /\ memPortfolio.cash = <<968969, 10>>
        /\ HoldsOnly(20, Dec(155))
        /\ executed[2].fees = <<8, 5>>
        /\ ValidateTradeOrder(NewTrade(TestUserID, "AAPL", "sell", 20), memPortfolio, Dec(155)) = "none"
    /\ (ScenarioC /\ Len(executed) = 3) =>
        /\ memPortfolio.cash = <<499969, 5>>
        /\ memPortfolio.positions = <<>>
        /\ executed[3].fees = <<31, 10>>

\* the three orders were executed in this order
C24_Witness == ScenarioC /\ Len(executed) = 3 /\ lastCall.kind = "executed"

\* C25: the fee on every executed trade, buy or sell, is max(1.00, 0.001 *
\* quantity * price): it is at least 1.00 and is 1.00 when the notional is
\* at most 1000; a buy and a sell of the same quantity at the same price
\* are stamped with the same fee; and ValidateTradeOrder accepts a buy
\* exactly when the cash covers the notional and the fee ExecuteTradeOrder
\* stamps on it.
C25_FeeIsMaxOfMinimumAndRate ==
    /\ \A k \in 1..Len(executed) :
        LET notional == RMul(Dec(executed[k].quantity), executed[k].price)
        IN  /\ executed[k].fees = FeeFor(notional)
            /\ RLe(Dec(1), executed[k].fees)
            /\ RLe(notional, Dec(1000)) => executed[k].fees = Dec(1)
    /\ \A q \in {10, 20}, price \in ScenarioPrices :
        LET buy == NewTrade(TestUserID, "AAPL", "buy", q)
            sell == NewTrade(TestUserID, "AAPL", "sell", q)
            charged == ExecuteTradeOrder(buy, memPortfolio, price).trade.fees
        IN  /\ charged = ExecuteTradeOrder(sell, memPortfolio, price).trade.fees
            /\ ValidateTradeOrder(buy, memPortfolio, price) = "none"
                <=> RLe(RAdd(RMul(Dec(q), price), charged), memPortfolio.cash)

\* a buy with the notional 1000 was charged 1.00 and took all of the cash
\* 1001, so that every other buy is turned down; in another behaviour a
\* sell was charged more than the minimum
C25_Witness ==
    /\ Len(executed) = 1
    /\ executed[1].side = "buy"
    /\ RMul(Dec(executed[1].quantity), executed[1].price) = Dec(1000)
    /\ executed[1].fees = Dec(1)
    /\ memPortfolio.cash = Zero
    /\ lastCall.kind = "rejected" /\ lastCall.err = "InsufficientFunds"

(***************************************************************************)
(* Properties of the ledger under every call that writes (SpecLedger).     *)
(***************************************************************************)
\* C12: a committed trade row stays in the ledger with the same field
\* values through every later step: ExecuteTrade requests, market-data
\* refreshes, portfolio updates, position deletions and portfolio deletions.
C12_LedgerAppendOnly ==
    [][\A t \in db.trades : t \in db'.trades]_vars

\* a trade is in the ledger and a market-data refresh was saved after it
C12_Witness ==
    /\ db.trades # {}
    /\ \E p \in db.portfolios : p.unrealized_pnl # Zero


RealizedPnLOf(d, portfolioID) == {p.realized_pnl : p \in PortfolioRowsByID(d, portfolioID)}

SellCommits(r) ==
    /\ req[r].pc = "commit"
    /\ req'[r].pc = "done"
    /\ req'[r].err = "none"
    /\ req[r].trade.side = "sell"

\* C29: the realized PnL of a portfolio changes only where a sell is
\* committed: a buy, a failed or rejected order and a market-data refresh
\* leave it as it was, in the stored row and in the portfolio in memory.
C29_RealizedPnLChangesOnlyAtSell ==
    [][/\ \A p \in db.portfolios :
            RealizedPnLOf(db', p.id) \subseteq {p.realized_pnl}
                \/ \E r \in Requests : SellCommits(r) /\ req[r].portfolioID = p.id
       /\ \A r \in Requests :
            (req[r].portfolio = <<>> /\ req'[r].portfolio # <<>> /\ req[r].trade.side = "buy")
                => req'[r].portfolio[1].realized_pnl = req[r].loaded[1].realized_pnl
       /\ (job.portfolio = <<>> /\ job'.portfolio # <<>>)
            => job'.portfolio[1].realized_pnl \in RealizedPnLOf(db, job'.portfolio[1].id)
      ]_vars

\* a buy is committed and a market-data refresh that found a price other
\* than the entry price is saved; the realized PnL is as at creation
C29_Witness ==
    /\ \E t \in db.trades : t.side = "buy"
    /\ \E p \in db.portfolios : p.unrealized_pnl # Zero /\ p.realized_pnl = Zero
    /\ job.pc = "idle"

(***************************************************************************)
(* Market-data refreshes beside ExecuteTrade requests (SpecRefresh).       *)
(***************************************************************************)
RefreshStarts == job.pc = "idle" /\ job'.pc = "save"
RefreshEnds == job.pc = "save" /\ job'.pc = "idle"

\* what a refresh must leave alone in a position
Holding(p) == [symbol |-> p.symbol, quantity |-> p.quantity, entry_price |-> p.entry_price]

\* C35: the market-data update leaves the cash of the portfolio and the
\* quantity and entry price of its positions as loaded, and the step that
\* saves the refreshed portfolio leaves the committed cash as it is, that
\* is, as the requests committed so far have made it.
C35_RefreshLeavesCash ==
    [][/\ RefreshStarts =>
            \E row \in PortfolioRowsByID(db, job'.portfolio[1].id) :
                LET loaded == GetPositionsByPortfolioID(db, row.id)
                    updated == job'.portfolio[1]
                IN  /\ updated.cash = row.cash
                    /\ Len(updated.positions) = Len(loaded)
                    /\ \A i \in 1..Len(loaded) :
                        Holding(updated.positions[i]) = Holding(loaded[i])
       /\ RefreshEnds =>
            \A p \in db.portfolios, q \in db'.portfolios : p.id = q.id => q.cash = p.cash
      ]_vars

(***************************************************************************)
(* Analytics of a loaded portfolio (SpecAnalytics).                        *)
(***************************************************************************)
RECURSIVE SumOver(_, _)
SumOver(f, keys) ==
    IF keys = {} THEN Zero
    ELSE LET k == CHOOSE x \in keys : TRUE
         IN  RAdd(f[k], SumOver(f, keys \ {k}))

AllPriced(portfolio, currentPrices) ==
    \A i \in 1..Len(portfolio.positions) : portfolio.positions[i].symbol \in DOMAIN currentPrices

OneEntryPerPosition(portfolio) ==
    \A i, j \in 1..Len(portfolio.positions) :
        portfolio.positions[i].symbol = portfolio.positions[j].symbol => i = j

AllocationReturned == lastCall.kind = "allocation"

RebalanceReturned == lastCall.kind = "rebalance"

CurrentPercent(symbol) ==
    LET allocations == CalculatePortfolioAllocation(memPortfolio, lastCall.prices)
    IN  IF symbol \in DOMAIN allocations THEN allocations[symbol] ELSE Zero

Delta(symbol) == RSub(lastCall.targets[symbol], CurrentPercent(symbol))

\* C27: a recommendation is emitted for a target symbol only if its delta,
\* target percentage less current percentage, is above 1.0 in absolute
\* value; its action is buy when the delta is above 1.0 and sell when it is
\* below -1.0, never hold; its estimated share count is not negative for a
\* buy and not positive for a sell.
C27_RecommendationBeyondOnePoint ==
    RebalanceReturned =>
        \A rec \in lastCall.recommendations :
            /\ rec.symbol \in DOMAIN lastCall.targets
            /\ RLt(Dec(1), RAbs(Delta(rec.symbol)))
            /\ rec.action = (IF RLt(Dec(1), Delta(rec.symbol)) THEN "buy" ELSE "sell")
            /\ rec.action = "buy" => rec.estimated_shares >= 0
            /\ rec.action = "sell" => rec.estimated_shares <= 0


RiskReturned == lastCall.kind = "risk"

\* the sum of the squared weights of the priced positions, the weight being
\* the value of the position over the portfolio value
RECURSIVE Herfindahl(_, _)
Herfindahl(positions, totalValue) ==
    IF positions = <<>> THEN Zero
    ELSE LET position == Head(positions)
             value == RMul(Dec(position.quantity), lastCall.prices[position.symbol])
         IN  RAdd(RDiv(RMul(value, value), RMul(totalValue, totalValue)),
                  Herfindahl(Tail(positions), totalValue))

\* C28: the diversification score is 0 for a portfolio of no or one
\* position; for a portfolio of two or more positions, all priced, it is
\* (1 - sum of the squared position weights) * 100 and lies between 0 and
\* 100.
C28_DiversificationScore ==
    RiskReturned =>
        LET score == lastCall.metrics.diversification_score
            totalValue == CalculatePortfolioValue(memPortfolio, lastCall.prices)
        IN  /\ Len(memPortfolio.positions) <= 1 => score = Zero
            /\ (Len(memPortfolio.positions) >= 2 /\ AllPriced(memPortfolio, lastCall.prices))
                => /\ IsFinite(score)
                   /\ score = RSub(Dec(100),
                                   RMul(Dec(100), Herfindahl(memPortfolio.positions, totalValue)))
                   /\ RLe(Zero, score)
                   /\ RLe(score, Dec(100))


(***************************************************************************)
(* Executed orders and market-data updates (SpecMarketData).               *)
(***************************************************************************)
PnLOf(position) ==
    RMul(RSub(position.current_price, position.entry_price), Dec(position.quantity))

\* C30: the position an executed order returns (a first buy, a further buy,
\* a partial sell) is at the execution price, a priced position after a
\* market-data update is at its quote, and for both the unrealized PnL is
\* (current price - entry price) * quantity; a newly created position has
\* unrealized PnL 0.
C30_UnrealizedPnLOfPosition ==
    /\ (lastCall.kind = "executed" /\ lastCall.position # <<>>) =>
        LET position == lastCall.position[1]
        IN  /\ position.current_price = lastCall.price
            /\ position.unrealized_pnl = PnLOf(position)
            /\ position \in {memPortfolio.positions[i] : i \in 1..Len(memPortfolio.positions)}
            /\ findPositionByIndex(lastCall.before.positions, position.symbol) = 0
                => position.unrealized_pnl = Zero
    /\ lastCall.kind = "refreshed" =>
        \A i \in 1..Len(memPortfolio.positions) :
            LET position == memPortfolio.positions[i]
            IN  position.symbol \in DOMAIN lastCall.prices
                    => /\ position.current_price = lastCall.prices[position.symbol]
                       /\ position.unrealized_pnl = PnLOf(position)

\* the third order executed was a sale that left 10 shares, and a
\* market-data update then priced them and changed their unrealized PnL
C30_Witness ==
    /\ lastCall.kind = "refreshed"
    /\ Len(executed) = 3
    /\ executed[3].side = "sell"
    /\ \E i \in 1..Len(memPortfolio.positions) :
        /\ memPortfolio.positions[i].symbol \in DOMAIN lastCall.prices
        /\ memPortfolio.positions[i].quantity = 10
        /\ memPortfolio.positions[i].unrealized_pnl # lastCall.before.positions[i].unrealized_pnl


(***************************************************************************)
(* ExecuteTradeOrder on orders that were not validated (SpecExecuteOrder). *)
(***************************************************************************)
ExecuteFailed == lastCall.kind = "direct" /\ lastCall.err # "none"

\* C36: when ExecuteTradeOrder returns an error, the cash and the positions
\* of the portfolio are as before the call and the trade is not marked as
\* executed: its status is not filled and its price, fee and execution time
\* are not set.
C36_FailedExecutionLeavesTradeUnmarked ==
    ExecuteFailed =>
        /\ lastCall.position = <<>>
        /\ memPortfolio.cash = lastCall.before.cash
        /\ memPortfolio.positions = lastCall.before.positions
        /\ lastCall.trade.status # "filled"
        /\ lastCall.trade.price = Zero
        /\ lastCall.trade.fees = Zero
        /\ ~lastCall.trade.executed


(***************************************************************************)
(* Retries of the job queue (SpecQueue).                                   *)
(***************************************************************************)
OnQueue(q, id, queue) ==
    \E i \in 1..Len(q.lists[queue]) : q.lists[queue][i].id = id

Enqueued(q, id) == \E queue \in Queues : OnQueue(q, id, queue)

Asleep(q, id) == \E j \in q.asleep : j.id = id

\* the queue a worker is about to take job id from
TakenFrom(id) ==
    {queue \in Queues : /\ queues.lists[queue] # <<>>
                        /\ BRPop(queues.lists[queue]).id = id}

\* this step calls handler.Handle on job id
Handles(id) == queues'.handled[id] = queues.handled[id] + 1

HandleFails(id) == Handles(id) /\ queues'.status[id] # "completed"

\* this step is the wake-up of the goroutine that holds job id
WakesUp(id) == Asleep(queues, id) /\ ~Asleep(queues', id)

Ended(q, id) == q.status[id] \in {"failed", "completed"}

\* C37: a job whose handler fails is, while it has retries left, marked
\* 'retrying' with its counter incremented and is put back on the queue it
\* was taken from; the failure after MaxRetries retries is its
\* (MaxRetries + 1)th handling and marks it 'failed'; a job whose handler
\* succeeds is marked 'completed'; a failed or completed job is on no queue
\* and is never enqueued again.
C37_FailingJobHandledMaxRetriesPlusOneTimes ==
    [][\A id \in JobIDs :
        /\ \A queue \in TakenFrom(id) :
            LET j == BRPop(queues.lists[queue])
            IN  /\ HandleFails(id) /\ j.retries < j.max_retries
                    => /\ queues'.status[id] = "retrying"
                       /\ [j EXCEPT !.retries = @ + 1] \in queues'.asleep
                       /\ getQueueForJobType(j.type) = queue
                /\ HandleFails(id) /\ ~(j.retries < j.max_retries)
                    => /\ queues'.status[id] = "failed"
                       /\ queues'.handled[id] = j.max_retries + 1
                /\ Handles(id) /\ ~HandleFails(id)
                    => queues'.status[id] = "completed"
        /\ \A j \in queues.asleep :
            j.id = id /\ WakesUp(id)
                => queues'.lists[getQueueForJobType(j.type)]
                        = <<j>> \o queues.lists[getQueueForJobType(j.type)]
        /\ Ended(queues', id) => ~Enqueued(queues', id) /\ ~Asleep(queues', id)
      ]_vars

====
